---- MODULE Spec2Model ----
(***************************************************************************)
(* Model of the Perspectra library (perspectra_lib): the corner ordering,  *)
(* quadrilateral reduction, corner scaling and rectification of            *)
(* PerspectiveCorrectionAdapter, the segmentation adapters, and the        *)
(* PerspectraProcessor.process_image pipeline.                             *)
(***************************************************************************)
EXTENDS Integers, Sequences, FiniteSets, TLC

\* ------------------------------------------------------------------------
\* Bounds of the model
\* ------------------------------------------------------------------------
\* Largest pixel coordinate of a corner point in the point-ordering model.
MaxCoord == 2
\* Largest number of points approxPolyDP returns for a contour.
MaxApproxLen == 6
\* Largest number of foreground regions (external contours) of a mask.
MaxBlobs == 2
MaxSide == 12
MaxGrab == 32
NThreads == 2
MaxCalls == 2

\* ------------------------------------------------------------------------
\* Points and numpy helpers
\* ------------------------------------------------------------------------
Coords == 0..MaxCoord
Point == Coords \X Coords
Idx == 1..4

\* All permutations of 1..4 (index arrays that numpy.argsort can return).
Perms4 == {p \in [Idx -> Idx] : \A i, j \in Idx : i # j => p[i] # p[j]}

\* np.argsort(keys) with the default kind ("quicksort", documented as not
\* stable): any index permutation that puts the keys in non-decreasing order.
ArgSorts(keys) ==
    {p \in Perms4 : \A i, j \in Idx : i < j => keys[p[i]] <= keys[p[j]]}

\* The stable outcome of argsort (ties keep input order).
StableArgSort(keys) ==
    CHOOSE p \in ArgSorts(keys) :
        \A i, j \in Idx : (i < j /\ keys[p[i]] = keys[p[j]]) => p[i] < p[j]

Column(pts_, c) == [i \in Idx |-> pts_[i][c]]

\* pts[np.argsort(pts[:, c])]: the point arrays the sort can produce.
SortedBy(pts_, c) ==
    {[i \in Idx |-> pts_[p[i]]] : p \in ArgSorts(Column(pts_, c))}

\* The sign of  np.degrees(np.arctan2(dy, dx)) * -1  for dx >= 0 (dx is the
\* difference of two x-sorted values): arctan2 is positive exactly when
\* dy > 0, and arctan2(0, dx) = 0 gives -0.0, which is >= 0.
AngleSign(dx, dy) == IF dy > 0 THEN -1 ELSE IF dy < 0 THEN 1 ELSE 0

\* angle of the segment between x_sorted[0] and x_sorted[1]
order_angle(x_sorted) ==
    AngleSign(x_sorted[2][1] - x_sorted[1][1],
              x_sorted[2][2] - x_sorted[1][2])

\* for point in pts: if not any(array_equal(point, used) ...): BR = point; break
\* <<>> stands for None (no point found).
FirstUnused(pts_, used) ==
    LET free == {i \in Idx : pts_[i] \notin used}
    IN  IF free = {} THEN <<>>
        ELSE pts_[CHOOSE i \in free : \A j \in free : i <= j]

\* Variant: the branch test is  angle > 0.
order_points_strict_angle(pts_, x_sorted, y_sorted) ==
    LET angle_ == order_angle(x_sorted)
    IN  IF angle_ > 0
        THEN LET BL == x_sorted[1]
                 TR == x_sorted[4]
                 TL == y_sorted[1]
                 BR == FirstUnused(pts_, {BL, TR, TL})
             IN  <<TL, TR, BR, BL>>
        ELSE LET BL == y_sorted[4]
                 TR == y_sorted[1]
                 TL == x_sorted[1]
                 BR == FirstUnused(pts_, {BL, TR, TL})
             IN  <<TL, TR, BR, BL>>

\* PerspectiveCorrectionAdapter._order_points, for the arrays x_sorted and
\* y_sorted produced by the two argsort calls.  Result is [TL, TR, BR, BL];
\* BR = <<>> is  np.array([TL, TR, None, BL], dtype="float32"), which raises.
order_points(pts_, x_sorted, y_sorted) ==
    LET angle_ == order_angle(x_sorted)
    IN  IF angle_ >= 0
        THEN LET BL == x_sorted[1]
                 TR == x_sorted[4]
                 TL == y_sorted[1]
                 BR == FirstUnused(pts_, {BL, TR, TL})
             IN  <<TL, TR, BR, BL>>
        ELSE LET BL == y_sorted[4]
                 TR == y_sorted[1]
                 TL == x_sorted[1]
                 BR == FirstUnused(pts_, {BL, TR, TL})
             IN  <<TL, TR, BR, BL>>

\* ------------------------------------------------------------------------
\* Quadrilateral reduction
\* ------------------------------------------------------------------------
\* epsilons = [0.01, 0.02, 0.03, 0.05, 0.1], in percent of the perimeter
epsilons == <<1, 2, 3, 5, 10>>
NEps == Len(epsilons)

\* The lengths len(approx) that cv2.approxPolyDP returns for the five
\* tolerances on one contour (a result of the OpenCV primitive).
ApproxLens == [1..NEps -> 1..MaxApproxLen]

\* Variant: a simplification with fewer than four points does not end the
\* loop (continue instead of break).
RECURSIVE find_corners_no_break(_, _)
find_corners_no_break(lens, i) ==
    IF i > NEps
    THEN [src |-> "minAreaRect", eps |-> 0, tried |-> NEps, npoints |-> 4]
    ELSE IF lens[i] = 4
         THEN [src |-> "approxPolyDP", eps |-> epsilons[i], tried |-> i,
               npoints |-> lens[i]]
         ELSE find_corners_no_break(lens, i + 1)

RECURSIVE find_corners_from(_, _)
find_corners_from(lens, i) ==
    IF i > NEps
    THEN [src |-> "minAreaRect", eps |-> 0, tried |-> NEps, npoints |-> 4]
    ELSE IF lens[i] = 4
         THEN [src |-> "approxPolyDP", eps |-> epsilons[i], tried |-> i,
               npoints |-> lens[i]]
         ELSE IF lens[i] < 4
              THEN [src |-> "minAreaRect", eps |-> 0, tried |-> i,
                    npoints |-> 4]
              ELSE find_corners_from(lens, i + 1)

\* PerspectiveCorrectionAdapter._find_corners: which simplification is
\* returned, after how many tolerances, and with how many points.
find_corners(lens) == find_corners_from(lens, 1)

NoCorners == [src |-> "none", eps |-> 0, tried |-> 0, npoints |-> 0]

\* ------------------------------------------------------------------------
\* Corner sets, scaling and rectification
\* ------------------------------------------------------------------------
\* A corner set holds the four points [TL, TR, BR, BL] as exact fractions:
\* corner i is (p[i][1] / d[1], p[i][2] / d[2]).  Corners found on a mask
\* are integers (d = <<1, 1>>); float32 rounding is not modelled.
MaskCorners(o) == [p |-> o, d |-> <<1, 1>>]
NoCornerSet == [p |-> <<>>, d |-> <<1, 1>>]

RECURSIVE GCD(_, _)
GCD(a, b) == IF b = 0 THEN a ELSE GCD(b, a % b)

\* Variant: both coordinates are scaled by the width ratio.
scale_corners_width_only(c, mask_w, mask_h, orig_w, orig_h) ==
    IF mask_w # orig_w \/ mask_h # orig_h
    THEN LET gx == GCD(orig_w, mask_w)
         IN  [p |-> [i \in Idx |-> <<c.p[i][1] * (orig_w \div gx),
                                     c.p[i][2] * (orig_w \div gx)>>],
              d |-> <<c.d[1] * (mask_w \div gx), c.d[2] * (mask_w \div gx)>>]
    ELSE c

\* correct_perspective, "Scale corners to original image coordinates if
\* dimensions differ":  corners[:, 0] *= orig_width / mask_width  and
\* corners[:, 1] *= orig_height / mask_height.  The two scale factors are
\* kept as fractions in lowest terms.
scale_corners(c, mask_w, mask_h, orig_w, orig_h) ==
    IF mask_w # orig_w \/ mask_h # orig_h
    THEN LET gx == GCD(orig_w, mask_w)
             gy == GCD(orig_h, mask_h)
         IN  [p |-> [i \in Idx |-> <<c.p[i][1] * (orig_w \div gx),
                                     c.p[i][2] * (orig_h \div gy)>>],
              d |-> <<c.d[1] * (mask_w \div gx), c.d[2] * (mask_h \div gy)>>]
    ELSE c

\* Squared Euclidean distance of corners i and j, times (d[1]*d[2])^2.
SqDist(c, i, j) ==
    LET ex == (c.p[i][1] - c.p[j][1]) * c.d[2]
        ey == (c.p[i][2] - c.p[j][2]) * c.d[1]
    IN  ex * ex + ey * ey

\* 2*n*D <= sqrt(A) + sqrt(B), decided in integers.
AvgAtLeast(n, A, B, D) ==
    LET L2 == (2 * n * D) * (2 * n * D)
    IN  \/ L2 <= A
        \/ L2 + A - B <= 0
        \/ (L2 + A - B) * (L2 + A - B) <= 4 * L2 * A

\* int((sqrt(A)/D + sqrt(B)/D) / 2): the truncated average of two lengths.
IntAvg(A, B, D) ==
    CHOOSE n \in 0..(A + B) :
        AvgAtLeast(n, A, B, D) /\ ~AvgAtLeast(n + 1, A, B, D)

NoImage == [kind |-> "none", w |-> 0, h |-> 0]

\* final_width and final_height: the truncated averages of the top and
\* bottom edge lengths and of the left and right edge lengths.
final_size_from_top(c) ==
    LET D == c.d[1] * c.d[2]
        top_width == SqDist(c, 1, 2)
        right_height == SqDist(c, 2, 3)
    IN  [w |-> IntAvg(top_width, top_width, D),
         h |-> IntAvg(right_height, right_height, D)]

final_size(c) ==
    LET D == c.d[1] * c.d[2]
        top_width == SqDist(c, 1, 2)
        right_height == SqDist(c, 2, 3)
        bottom_width == SqDist(c, 3, 4)
        left_height == SqDist(c, 4, 1)
    IN  [w |-> IntAvg(top_width, bottom_width, D),
         h |-> IntAvg(left_height, right_height, D)]

\* int(final_width * self.config.padding_ratio): the product truncated
\* toward zero.  padding is the ratio in percent.
padding_of_rounded(n, padding) == (n * padding + 50) \div 100

padding_of(n, padding) == (n * padding) \div 100

\* padded_width = final_width + 2 * width_padding
padded_size_shrunk(n, pad) == n - 2 * pad

padded_size(n, pad) == n + 2 * pad

\* dst_pts: the destination rectangle [TL, TR, BR, BL] inside the canvas.
dst_rectangle(padded_width, padded_height, width_padding, height_padding) ==
    << <<width_padding, height_padding>>,
       <<padded_width - width_padding - 1, height_padding>>,
       <<padded_width - width_padding - 1,
         padded_height - height_padding - 1>>,
       <<width_padding, padded_height - height_padding - 1>> >>

\* The quantities _apply_perspective_transform computes before the warp.
NoWarp == [final_width |-> -1, final_height |-> -1,
           width_padding |-> -1, height_padding |-> -1,
           padded_width |-> -1, padded_height |-> -1,
           dst_pts |-> <<>>, padding |-> -1]
transform_geometry(c, padding) ==
    LET final == final_size(c)
        width_padding == padding_of(final.w, padding)
        height_padding == padding_of(final.h, padding)
        padded_width == padded_size(final.w, width_padding)
        padded_height == padded_size(final.h, height_padding)
    IN  [final_width |-> final.w, final_height |-> final.h,
         width_padding |-> width_padding,
         height_padding |-> height_padding,
         padded_width |-> padded_width, padded_height |-> padded_height,
         dst_pts |-> dst_rectangle(padded_width, padded_height,
                                   width_padding, height_padding),
         padding |-> padding]

\* PerspectiveCorrectionAdapter._apply_perspective_transform: the canvas of
\* the warped image.  padding is config.padding_ratio in percent.  A dsize
\* with a zero side makes cv2.warpPerspective allocate the source's size.
apply_perspective_transform(image, c, padding) ==
    LET g == transform_geometry(c, padding)
    IN  IF g.padded_width <= 0 \/ g.padded_height <= 0
        THEN [kind |-> "warped", w |-> image.w, h |-> image.h]
        ELSE [kind |-> "warped", w |-> g.padded_width, h |-> g.padded_height]

\* ------------------------------------------------------------------------
\* Configuration, inputs
\* ------------------------------------------------------------------------
\* PerspectraConfig: the fields the modelled code reads.  padding_ratio is
\* in percent.
PaddingRatios == {5}
FastMethods == {"threshold", "watershed", "grabcut"}
AllConfigs ==
    [use_ultrafast : BOOLEAN, use_optimized : BOOLEAN,
     fast_method : FastMethods, use_local_model : BOOLEAN,
     save_contours : BOOLEAN, save_transformed : BOOLEAN,
     padding_ratio : PaddingRatios]

\* Configurations given to PerspectraProcessor: one performance mode is
\* selected at a time, fast_method is set together with use_ultrafast.
Configs ==
    {c \in AllConfigs :
        /\ (~c.use_ultrafast) => c.fast_method = "threshold"
        /\ ~(c.use_ultrafast /\ c.use_optimized)}

\* Configurations given to a PerspectiveCorrectionAdapter used on its own:
\* the defaults, with the fields the adapter reads set by the caller.
CorrectorConfigs ==
    {c \in Configs :
        /\ ~c.use_ultrafast /\ ~c.use_optimized
        /\ c.use_local_model}

NoConfig == [use_ultrafast |-> FALSE, use_optimized |-> FALSE,
             fast_method |-> "none", use_local_model |-> FALSE,
             save_contours |-> FALSE, save_transformed |-> FALSE,
             padding_ratio |-> 0]

\* Widths and heights of images and masks.
DimSet == {MaxCoord + 1, 2 * (MaxCoord + 1)}

\* Input byte strings, by what the two decoders make of them: pil says
\* whether PIL.Image.open succeeds, cv whether cv2.imdecode returns an image.
ImageBytes ==
    {[pil |-> FALSE, cv |-> FALSE, w |-> 0, h |-> 0]} \cup
    {b \in [pil : BOOLEAN, cv : BOOLEAN, w : DimSet, h : DimSet] :
        b.pil \/ b.cv}
NoBytes == [pil |-> FALSE, cv |-> FALSE, w |-> -1, h |-> -1]

\* A mask: its size and the number of its foreground regions (blobs = 0 is
\* a mask in which every pixel is 0).
Masks == [w : DimSet, h : DimSet, blobs : 0..MaxBlobs]
NoMask == [w |-> 0, h |-> 0, blobs |-> 0]

\* Four-point sets handed over by corner detection in the pipeline model.
QuadSamples ==
    { <<<<0, 0>>, <<0, MaxCoord>>, <<MaxCoord, MaxCoord>>, <<MaxCoord, 0>>>>,
      <<<<1, 0>>, <<0, 1>>, <<1, MaxCoord>>, <<MaxCoord, 1>>>>,
      <<<<0, 0>>, <<0, 0>>, <<0, 0>>, <<0, 0>>>>,
      <<<<0, 0>>, <<1, 0>>, <<MaxCoord, 0>>, <<1, 1>>>> }

\* approxPolyDP outcomes used in the pipeline model.
LensSamples ==
    { [i \in 1..NEps |-> IF i < 3 THEN 5 ELSE 4],
      [i \in 1..NEps |-> IF i < 3 THEN 5 ELSE 3] }

\* Exceptions in flight: the stage that raised, the Python exception class
\* and str(e).
NoExc == [stage |-> "", kind |-> "", msg |-> ""]
Exc(stage, kind, msg) == [stage |-> stage, kind |-> kind, msg |-> msg]

\* The tuple process_image returns (has_image: result_image is not None).
NoResult == [returned |-> FALSE, success |-> FALSE, error_message |-> "",
             has_image |-> FALSE, image |-> NoImage, duration |-> 0]

\* ------------------------------------------------------------------------
\* State
\* ------------------------------------------------------------------------
VARIABLES
    model_present,    \* the model file exists under models/
    os_environ,       \* os.environ["U2NET_HOME"] ("" when unset)
    config,           \* PerspectraProcessor.config
    proc,             \* "new", "ready", or "raised" (__init__ raised)
    bg_remover,       \* class of PerspectraProcessor.bg_remover
    pc,               \* position of the running invocation
    caller,           \* "process_image" or "direct" (correct_perspective)
    image_bytes,      \* argument of the invocation
    elapsed,          \* time.time() - start_time
    strategy_run,     \* segmentation strategy that produced the mask
    mask,             \* background_mask
    original,         \* original_image decoded by cv2.imdecode
    contour,          \* approxPolyDP lengths of largest_contour
    corner_src,       \* outcome of _find_corners
    pts,              \* raw_corners, argument of _order_points
    angle,            \* sign of angle in _order_points
    ordered,          \* ordered_corners = mask_corners
    original_corners, \* corners passed to _apply_perspective_transform
    warp_src,         \* which image _apply_perspective_transform warped
    transformed,      \* result of _apply_perspective_transform
    debug_out,        \* debug artifacts written to disk
    exc,              \* exception in flight or caught
    result,           \* tuple returned by process_image
    pts_rot,          \* a cyclic rotation of pts
    ordered_rot,      \* _order_points(pts_rot)
    approx_calls,     \* number of approxPolyDP calls made by _find_corners
    opt,              \* an OptimizedBackgroundRemovalAdapter
    opt_out,          \* outcome of its remove_background_optimized call
    warp,             \* quantities computed by _apply_perspective_transform
    warp_hi,          \* the same for a larger padding_ratio
    rect,             \* rectangle _grabcut_removal hands to cv2.grabCut
    threads,          \* the invocations of concurrent callers, per thread
    seg_out,          \* outcome of a segmentation adapter's remove_background
    file_call,        \* a process_image_from_file invocation
    api,              \* a request to PerspectraAdapterService and its response
    equiv_out,        \* what the two perspective adapters make of one input
    opt_calls         \* the calls made on the optimized adapter

vars == <<model_present, os_environ, config, proc, bg_remover, pc, caller,
          image_bytes, elapsed, strategy_run, mask, original, contour,
          corner_src, pts, angle, ordered, original_corners, warp_src,
          transformed, debug_out, exc, result, pts_rot, ordered_rot,
          approx_calls, opt, opt_out, warp, warp_hi, rect, threads,
          seg_out, file_call, api, equiv_out, opt_calls>>

procVars == <<config, proc, bg_remover>>
geomVars == <<contour, corner_src, pts, angle, ordered, original_corners,
              warp_src, transformed, approx_calls, warp,
                   warp_hi>>
rotVars == <<pts_rot, ordered_rot>>
extVars == <<seg_out, file_call, api, equiv_out, opt_calls>>
optVars == <<opt, opt_out, rect, threads, extVars>>

\* OptimizedBackgroundRemovalAdapter: construction state, whether
\* self.session is set, the configuration fields it was built with, and
\* the number of calls of _initialize_onnx_session.
NoOpt == [state |-> "new", session |-> FALSE, model_type |-> "none",
          use_local_model |-> FALSE, inits |-> 0]
NoOptOut == [state |-> "none", strategy |-> "none", trace |-> <<>>]

NoPts == <<>>
NoLens == <<>>
NoRect == <<>>
NoThreads == <<>>

\* No remove_background call has been made.  A call's outcome: how it ends
\* ("returned" or "raised"), what it returns ("segmented": the output of the
\* algorithm, "input image": the decoded input), the algorithm and how it
\* went, the value of the pixels the algorithm classified as background,
\* and the exception that left the method.
NoSegOut == [state |-> "none", value |-> "none", method |-> "none",
             algorithm |-> "not run", background |-> -1, raised |-> NoExc]
\* No process_image_from_file call has been made.  A call: its position,
\* what open()/read() did with the path, and the tuple it returned.
NoFileCall == [state |-> "none", path |-> "none", result |-> NoResult]
\* PerspectraResponseModel with its field defaults.
NoResponse ==
    [is_background_removed |-> FALSE, is_image_wrapped |-> FALSE,
     error_message |-> "", result |-> FALSE, duration |-> 0,
     processed_image |-> ""]

\* No request has been made.  A request: its position, the USE_LOCAL_MODEL
\* setting, the stages that completed, and the response.
NoApi == [state |-> "none", use_local_model |-> FALSE, bg_done |-> FALSE,
          warp_done |-> FALSE, response |-> NoResponse]

\* The outcome of a perspective adapter call: how it ended, the exception,
\* the contour kept, the corner source, the ordered corners, the corners in
\* the original image, the canvas and destination rectangle, the image.
NoAdapterOut ==
    [state |-> "none", raised |-> NoExc, contour |-> NoLens,
     corner_src |-> NoCorners, ordered |-> NoPts,
     original_corners |-> NoCornerSet, geometry |-> NoWarp,
     image |-> NoImage]
NoEquivOut == [state |-> "none", lib |-> NoAdapterOut, api |-> NoAdapterOut]
\* The calls made on an OptimizedBackgroundRemovalAdapter after its
\* construction: their number, whether the model file was put in place
\* after construction, and the last call (the file's presence and the
\* session at the call, whether creating a session would succeed, the
\* input and the outcome).
NoOptCall == [present |-> FALSE, created |-> FALSE, input |-> NoBytes,
              session |-> FALSE, out |-> NoOptOut]
NoOptCalls == [n |-> 0, arrived |-> FALSE, last |-> NoOptCall]

\* Everything an invocation has not touched yet.
InvocationIdle ==
    /\ pc = "Idle"
    /\ caller = "none"
    /\ image_bytes = NoBytes
    /\ elapsed = 0
    /\ strategy_run = "none"
    /\ mask = NoMask
    /\ original = NoImage
    /\ contour = NoLens
    /\ corner_src = NoCorners
    /\ pts = NoPts
    /\ angle = 0
    /\ ordered = NoPts
    /\ original_corners = NoCornerSet
    /\ warp_src = "none"
    /\ transformed = NoImage
    /\ debug_out = {}
    /\ exc = NoExc
    /\ result = NoResult
    /\ pts_rot = NoPts
    /\ ordered_rot = NoPts
    /\ approx_calls = 0
    /\ opt = NoOpt
    /\ opt_out = NoOptOut
    /\ warp = NoWarp
    /\ warp_hi = NoWarp
    /\ rect = NoRect
    /\ threads = NoThreads
    /\ seg_out = NoSegOut
    /\ file_call = NoFileCall
    /\ api = NoApi
    /\ equiv_out = NoEquivOut
    /\ opt_calls = NoOptCalls

Init ==
    /\ model_present \in BOOLEAN
    /\ os_environ = ""
    /\ config = NoConfig
    /\ proc = "new"
    /\ bg_remover = "none"
    /\ InvocationIdle

\* ------------------------------------------------------------------------
\* PerspectraProcessor.__init__
\* ------------------------------------------------------------------------
\* BackgroundRemovalAdapter._ensure_model_exists: downloads the model file
\* when it is missing; dl is the outcome of the curl/wget subprocess ("ok",
\* "failed": CalledProcessError, "no_tool": neither curl nor wget found).
DownloadOutcomes == {"ok", "failed", "no_tool"}
ensure_model_exists(present, dl) ==
    IF present \/ dl = "ok"
    THEN [present |-> TRUE, raised |-> FALSE, msg |-> ""]
    ELSE [present |-> FALSE, raised |-> TRUE,
          msg |-> IF dl = "failed" THEN "Model download failed"
                  ELSE "No download tool available (curl/wget)"]

\* The adapter class the processor constructs for segmentation.
processor_bg_remover(c) == "BackgroundRemovalAdapter"

Construct ==
    /\ proc = "new"
    /\ \E c \in Configs, dl \in DownloadOutcomes :
          LET m == IF c.use_local_model
                   THEN ensure_model_exists(model_present, dl)
                   ELSE [present |-> model_present, raised |-> FALSE,
                         msg |-> ""]
          IN  /\ config' = c
              /\ model_present' = m.present
              /\ IF m.raised
                 THEN /\ proc' = "raised"
                      /\ bg_remover' = "none"
                      /\ exc' = Exc("construct", "RuntimeError", m.msg)
                 ELSE /\ proc' = "ready"
                      /\ bg_remover' = processor_bg_remover(c)
                      /\ exc' = exc
    /\ UNCHANGED <<os_environ, pc, caller, image_bytes, elapsed,
                   strategy_run, mask, original, debug_out, result>>
    /\ UNCHANGED geomVars
    /\ UNCHANGED rotVars
    /\ UNCHANGED optVars

\* ------------------------------------------------------------------------
\* PerspectraProcessor.process_image
\* ------------------------------------------------------------------------
\* Variant: the exception is recorded and the invocation goes on to return.
Raise_and_continue(e) ==
    /\ exc' = e
    /\ pc' = "return"

\* A step of the invocation raises e: control goes to the nearest handler.
Raise(e) ==
    /\ exc' = e
    /\ pc' = "raise"

\* start_time = time.time(); try: ...
StartProcess ==
    /\ proc = "ready"
    /\ pc = "Idle"
    /\ \E b \in ImageBytes : image_bytes' = b
    /\ caller' = "process_image"
    /\ elapsed' = 0
    /\ pc' = "load"
    /\ UNCHANGED <<model_present, os_environ, strategy_run, mask, original,
                   debug_out, exc, result>>
    /\ UNCHANGED procVars
    /\ UNCHANGED optVars
    /\ UNCHANGED geomVars
    /\ UNCHANGED rotVars

\* BackgroundRemovalAdapter._load_image_from_bytes: PIL.Image.open.
LoadImage ==
    /\ pc = "load"
    /\ elapsed' = elapsed + 1
    /\ IF image_bytes.pil
       THEN /\ pc' = "remove"
            /\ exc' = exc
       ELSE Raise(Exc("segmentation", "UnidentifiedImageError",
                      "cannot identify image file"))
    /\ UNCHANGED <<model_present, os_environ, caller, image_bytes,
                   strategy_run, mask, original, debug_out, result>>
    /\ UNCHANGED procVars
    /\ UNCHANGED optVars
    /\ UNCHANGED geomVars
    /\ UNCHANGED rotVars

\* The strategy a segmentation adapter class runs.
adapter_strategy(cls, c) ==
    IF cls = "UltraFastBackgroundRemovalAdapter" THEN c.fast_method
    ELSE "neural"

\* BackgroundRemovalAdapter._process_background_removal: sets U2NET_HOME,
\* runs rembg.remove and returns the result as an RGB array of the input's
\* size.  rembg may raise; the blobs of the mask are rembg's output.
RemoveBackground ==
    /\ pc = "remove"
    /\ elapsed' = elapsed + 1
    /\ os_environ' = IF config.use_local_model THEN "models" ELSE os_environ
    /\ \E ok \in BOOLEAN, n \in 0..MaxBlobs :
          IF ok
          THEN /\ mask' = [w |-> image_bytes.w, h |-> image_bytes.h,
                           blobs |-> n]
               /\ strategy_run' = adapter_strategy(bg_remover, config)
               /\ pc' = "decode"
               /\ exc' = exc
          ELSE /\ Raise(Exc("segmentation", "Exception", "rembg failed"))
               /\ UNCHANGED <<mask, strategy_run>>
    /\ UNCHANGED <<model_present, caller, image_bytes, original, debug_out,
                   result>>
    /\ UNCHANGED procVars
    /\ UNCHANGED optVars
    /\ UNCHANGED geomVars
    /\ UNCHANGED rotVars

\* PerspectiveCorrectionAdapter.correct_perspective called by a user of the
\* adapter with a mask and the original image's bytes.
StartCorrect ==
    /\ pc = "Idle"
    /\ \E b \in ImageBytes, m \in Masks :
          /\ image_bytes' = b
          /\ mask' = m
    /\ caller' = "direct"
    /\ elapsed' = 0
    /\ pc' = "decode"
    /\ UNCHANGED <<model_present, os_environ, strategy_run, original,
                   debug_out, exc, result>>
    /\ UNCHANGED procVars
    /\ UNCHANGED optVars
    /\ UNCHANGED geomVars
    /\ UNCHANGED rotVars

\* correct_perspective: _convert_bytes_to_image (cv2.imdecode returns None
\* for bytes it cannot decode) and original_image.shape[:2].
DecodeOriginal ==
    /\ pc = "decode"
    /\ elapsed' = elapsed + 1
    /\ IF image_bytes.cv
       THEN /\ original' = [kind |-> "original", w |-> image_bytes.w,
                            h |-> image_bytes.h]
            /\ pc' = "contours"
            /\ exc' = exc
       ELSE /\ Raise(Exc("decode", "AttributeError",
                         "'NoneType' object has no attribute 'shape'"))
            /\ UNCHANGED original
    /\ UNCHANGED <<model_present, os_environ, caller, image_bytes,
                   strategy_run, mask, debug_out, result>>
    /\ UNCHANGED procVars
    /\ UNCHANGED optVars
    /\ UNCHANGED geomVars
    /\ UNCHANGED rotVars

\* Writing a debug artifact: _save_contour_debug / _save_debug_images catch
\* every exception of the write and log it.  disk_ok is the outcome of
\* makedirs/imwrite.  The result is the artifacts and error log entries on
\* disk, and whether an exception leaves the method.
save_debug_reraising(out, enabled, disk_ok, name) ==
    [out |-> IF ~enabled THEN out
             ELSE IF disk_ok THEN out \cup {<<"file", name>>}
             ELSE out \cup {<<"error logged", name>>},
     raised |-> enabled /\ ~disk_ok]

save_debug(out, enabled, disk_ok, name) ==
    [out |-> IF ~enabled THEN out
             ELSE IF disk_ok THEN out \cup {<<"file", name>>}
             ELSE out \cup {<<"error logged", name>>},
     raised |-> FALSE]

\* Variant: the empty contour list is not checked.
no_contours_unchecked(m) == FALSE

\* _find_contours, "if not contours": findContours found no region.
no_contours(m) == m.blobs = 0

\* PerspectiveCorrectionAdapter._find_contours: external contours of the
\* mask, the largest one is kept; an empty list raises ValueError.  The
\* lengths approxPolyDP will return for the contour are the contour's
\* geometry.
FindContours ==
    /\ pc = "contours"
    /\ elapsed' = elapsed + 1
    /\ IF no_contours(mask)
       THEN /\ Raise(Exc("corner_extraction", "ValueError",
                         "No contours found in mask."))
            /\ UNCHANGED <<contour, debug_out>>
       ELSE /\ \E lens \in LensSamples : contour' = lens
            /\ \E disk_ok \in BOOLEAN :
                  LET saved == save_debug(debug_out, config.save_contours,
                                          disk_ok, "contours")
                  IN  /\ debug_out' = saved.out
                      /\ IF saved.raised
                         THEN Raise(Exc("debug_output", "OSError",
                                        "Failed to save contours"))
                         ELSE pc' = "corners" /\ exc' = exc
    /\ UNCHANGED <<model_present, os_environ, caller, image_bytes,
                   strategy_run, mask, original, result>>
    /\ UNCHANGED procVars
    /\ UNCHANGED optVars
    /\ UNCHANGED <<corner_src, pts, angle, ordered, original_corners,
                   warp_src, transformed, approx_calls, warp,
                   warp_hi>>
    /\ UNCHANGED rotVars

\* PerspectiveCorrectionAdapter._find_corners on the largest contour; the
\* four points are those of the accepted simplification or of boxPoints.
FindCorners ==
    /\ pc = "corners"
    /\ elapsed' = elapsed + 1
    /\ corner_src' = find_corners(contour)
    /\ approx_calls' = find_corners(contour).tried
    /\ \E q \in QuadSamples : pts' = q
    /\ pc' = "order"
    /\ UNCHANGED <<model_present, os_environ, caller, image_bytes,
                   strategy_run, mask, original, debug_out, exc, result>>
    /\ UNCHANGED procVars
    /\ UNCHANGED optVars
    /\ UNCHANGED <<contour, angle, ordered, original_corners, warp_src,
                   transformed, warp, warp_hi>>
    /\ UNCHANGED rotVars

\* PerspectiveCorrectionAdapter._order_points on raw_corners: the two
\* argsort calls pick xs and ys; a missing BR makes np.array(...) raise.
OrderPoints ==
    /\ pc = "order"
    /\ elapsed' = elapsed + 1
    /\ \E xs \in SortedBy(pts, 1), ys \in SortedBy(pts, 2) :
          LET o == order_points(pts, xs, ys)
          IN  /\ angle' = order_angle(xs)
              /\ IF o[3] = <<>>
                 THEN /\ Raise(Exc("corner_extraction", "ValueError",
                             "setting an array element with a sequence."))
                      /\ UNCHANGED ordered
                 ELSE /\ ordered' = o
                      /\ pc' = "scale"
                      /\ exc' = exc
    /\ UNCHANGED <<model_present, os_environ, caller, image_bytes,
                   strategy_run, mask, original, debug_out, result>>
    /\ UNCHANGED procVars
    /\ UNCHANGED optVars
    /\ UNCHANGED <<contour, corner_src, pts, original_corners, warp_src,
                   transformed, approx_calls, warp,
                   warp_hi>>
    /\ UNCHANGED rotVars

\* correct_perspective: scaling of mask_corners to the original image.
ScaleCorners ==
    /\ pc = "scale"
    /\ elapsed' = elapsed + 1
    /\ original_corners' = scale_corners(MaskCorners(ordered), mask.w,
                                         mask.h, original.w, original.h)
    /\ pc' = "rectify"
    /\ UNCHANGED <<model_present, os_environ, caller, image_bytes,
                   strategy_run, mask, original, debug_out, exc, result>>
    /\ UNCHANGED procVars
    /\ UNCHANGED optVars
    /\ UNCHANGED <<contour, corner_src, pts, angle, ordered, warp_src,
                   transformed, approx_calls, warp,
                   warp_hi>>
    /\ UNCHANGED rotVars

\* The image correct_perspective hands to _apply_perspective_transform.
rectify_input(orig, msk) == orig

\* correct_perspective: _apply_perspective_transform(original_image,
\* original_corners), then the optional debug images.
Rectify ==
    /\ pc = "rectify"
    /\ elapsed' = elapsed + 1
    /\ LET src == rectify_input(original,
                                [kind |-> "mask", w |-> mask.w, h |-> mask.h])
       IN  /\ warp_src' = src.kind
           /\ transformed' = apply_perspective_transform(
                                 src, original_corners, config.padding_ratio)
           /\ warp' = transform_geometry(original_corners,
                                         config.padding_ratio)
    /\ \E disk_ok \in BOOLEAN :
          LET saved == save_debug(debug_out, config.save_transformed,
                                  disk_ok, "transformed")
          IN  /\ debug_out' = saved.out
              /\ IF saved.raised
                 THEN Raise(Exc("debug_output", "OSError",
                                "Error saving debug images"))
                 ELSE pc' = "return" /\ exc' = exc
    /\ UNCHANGED <<model_present, os_environ, caller, image_bytes,
                   strategy_run, mask, original, result>>
    /\ UNCHANGED procVars
    /\ UNCHANGED optVars
    /\ UNCHANGED <<contour, corner_src, pts, angle, ordered,
                   original_corners, approx_calls, warp_hi>>
    /\ UNCHANGED rotVars

\* return True, "", transformed_image, duration
success_result(img, dur) ==
    [returned |-> TRUE, success |-> TRUE, error_message |-> "",
     has_image |-> TRUE, image |-> img, duration |-> dur]

\* Variant: the failure tuple drops str(e).
failure_result_no_message(e, dur) ==
    [returned |-> TRUE, success |-> FALSE, error_message |-> "",
     has_image |-> FALSE, image |-> NoImage, duration |-> dur]

\* return False, str(e), None, duration
failure_result(e, dur) ==
    [returned |-> TRUE, success |-> FALSE, error_message |-> e.msg,
     has_image |-> FALSE, image |-> NoImage, duration |-> dur]

\* Variant: the except clause names ValueError only.
process_image_catches_value_error(e) == e.kind = "ValueError"

\* except Exception as e:  every exception of a stage is caught.
process_image_catches(e) == TRUE

\* correct_perspective returned: process_image computes the duration and
\* returns the success tuple; a direct caller gets the image.
Return ==
    /\ pc = "return"
    /\ IF caller = "process_image"
       THEN /\ result' = success_result(transformed, elapsed)
            /\ pc' = "Succeeded"
       ELSE /\ result' = result
            /\ pc' = "Returned"
    /\ UNCHANGED <<model_present, os_environ, caller, image_bytes, elapsed,
                   strategy_run, mask, original, debug_out, exc>>
    /\ UNCHANGED procVars
    /\ UNCHANGED optVars
    /\ UNCHANGED geomVars
    /\ UNCHANGED rotVars

\* The raised exception unwinds to the nearest handler: the except clause of
\* process_image returns the failure tuple; correct_perspective called on its
\* own re-raises to its caller.
Handler ==
    /\ pc = "raise"
    /\ IF caller = "process_image" /\ process_image_catches(exc)
       THEN /\ result' = failure_result(exc, elapsed)
            /\ pc' = "Failed"
       ELSE /\ result' = result
            /\ pc' = "Raised"
    /\ UNCHANGED <<model_present, os_environ, caller, image_bytes, elapsed,
                   strategy_run, mask, original, debug_out, exc>>
    /\ UNCHANGED procVars
    /\ UNCHANGED optVars
    /\ UNCHANGED geomVars
    /\ UNCHANGED rotVars

Next ==
    \/ Construct
    \/ StartProcess
    \/ LoadImage
    \/ RemoveBackground
    \/ DecodeOriginal
    \/ FindContours
    \/ FindCorners
    \/ OrderPoints
    \/ ScaleCorners
    \/ Rectify
    \/ Return
    \/ Handler

Spec == Init /\ [][Next]_vars

\* ------------------------------------------------------------------------
\* PerspectiveCorrectionAdapter used on its own
\* ------------------------------------------------------------------------
InitCorrect ==
    /\ model_present = TRUE
    /\ os_environ = ""
    /\ config \in CorrectorConfigs
    /\ proc = "new"
    /\ bg_remover = "none"
    /\ InvocationIdle

NextCorrect ==
    \/ StartCorrect
    \/ DecodeOriginal
    \/ FindContours
    \/ FindCorners
    \/ OrderPoints
    \/ ScaleCorners
    \/ Rectify
    \/ Return
    \/ Handler

SpecCorrect == InitCorrect /\ [][NextCorrect]_vars

\* ------------------------------------------------------------------------
\* _order_points on every four-point array
\* ------------------------------------------------------------------------
\* pts rotated cyclically by k positions.
Rotate(pts_, k) == [i \in Idx |-> pts_[((i - 1 + k) % 4) + 1]]

InitOrder ==
    /\ model_present = TRUE
    /\ os_environ = ""
    /\ config = NoConfig
    /\ proc = "new"
    /\ bg_remover = "none"
    /\ caller = "none"
    /\ image_bytes = NoBytes
    /\ elapsed = 0
    /\ strategy_run = "none"
    /\ mask = NoMask
    /\ original = NoImage
    /\ contour = NoLens
    /\ corner_src = NoCorners
    /\ angle = 0
    /\ ordered = NoPts
    /\ original_corners = NoCornerSet
    /\ warp_src = "none"
    /\ transformed = NoImage
    /\ debug_out = {}
    /\ exc = NoExc
    /\ result = NoResult
    /\ pts_rot = NoPts
    /\ ordered_rot = NoPts
    /\ approx_calls = 0
    /\ opt = NoOpt
    /\ opt_out = NoOptOut
    /\ warp = NoWarp
    /\ warp_hi = NoWarp
    /\ rect = NoRect
    /\ threads = NoThreads
    /\ seg_out = NoSegOut
    /\ file_call = NoFileCall
    /\ api = NoApi
    /\ equiv_out = NoEquivOut
    /\ opt_calls = NoOptCalls
    /\ pts \in [Idx -> Point]
    /\ pc = "order_call"

\* _order_points(pts)
OrderCall ==
    /\ pc = "order_call"
    /\ \E xs \in SortedBy(pts, 1), ys \in SortedBy(pts, 2) :
          /\ ordered' = order_points(pts, xs, ys)
          /\ angle' = order_angle(xs)
    /\ pc' = "order_done"
    /\ UNCHANGED <<model_present, os_environ, caller, image_bytes, elapsed,
                   strategy_run, mask, original, debug_out, exc, result>>
    /\ UNCHANGED procVars
    /\ UNCHANGED optVars
    /\ UNCHANGED <<contour, corner_src, pts, original_corners, warp_src,
                   transformed, approx_calls, warp,
                   warp_hi>>
    /\ UNCHANGED rotVars

\* _order_points on the same points, passed in the order rotated by one
\* position (every rotation is a repetition of this one, and every array
\* is an initial value of pts).
OrderRotatedCall ==
    /\ pc = "order_done"
    /\ pts_rot' = Rotate(pts, 1)
    /\ \E xs \in SortedBy(Rotate(pts, 1), 1),
          ys \in SortedBy(Rotate(pts, 1), 2) :
          ordered_rot' = order_points(Rotate(pts, 1), xs, ys)
    /\ pc' = "rot_done"
    /\ UNCHANGED <<model_present, os_environ, caller, image_bytes, elapsed,
                   strategy_run, mask, original, debug_out, exc, result>>
    /\ UNCHANGED procVars
    /\ UNCHANGED optVars
    /\ UNCHANGED geomVars

NextOrder == OrderCall

SpecOrder == InitOrder /\ [][NextOrder]_vars

NextRotate ==
    \/ OrderCall
    \/ OrderRotatedCall

SpecRotate == InitOrder /\ [][NextRotate]_vars

\* ------------------------------------------------------------------------
\* _find_corners on every outcome of approxPolyDP
\* ------------------------------------------------------------------------
InitCorners ==
    /\ model_present = TRUE
    /\ os_environ = ""
    /\ config = NoConfig
    /\ proc = "new"
    /\ bg_remover = "none"
    /\ caller = "none"
    /\ image_bytes = NoBytes
    /\ elapsed = 0
    /\ strategy_run = "none"
    /\ mask = NoMask
    /\ original = NoImage
    /\ corner_src = NoCorners
    /\ pts = NoPts
    /\ angle = 0
    /\ ordered = NoPts
    /\ original_corners = NoCornerSet
    /\ warp_src = "none"
    /\ transformed = NoImage
    /\ debug_out = {}
    /\ exc = NoExc
    /\ result = NoResult
    /\ pts_rot = NoPts
    /\ ordered_rot = NoPts
    /\ approx_calls = 0
    /\ opt = NoOpt
    /\ opt_out = NoOptOut
    /\ warp = NoWarp
    /\ warp_hi = NoWarp
    /\ rect = NoRect
    /\ threads = NoThreads
    /\ seg_out = NoSegOut
    /\ file_call = NoFileCall
    /\ api = NoApi
    /\ equiv_out = NoEquivOut
    /\ opt_calls = NoOptCalls
    /\ contour \in ApproxLens
    /\ pc = "corners_call"

\* _find_corners(contour)
CornersCall ==
    /\ pc = "corners_call"
    /\ corner_src' = find_corners(contour)
    /\ approx_calls' = find_corners(contour).tried
    /\ pc' = "corners_done"
    /\ UNCHANGED <<model_present, os_environ, caller, image_bytes, elapsed,
                   strategy_run, mask, original, debug_out, exc, result>>
    /\ UNCHANGED procVars
    /\ UNCHANGED optVars
    /\ UNCHANGED <<contour, pts, angle, ordered, original_corners, warp_src,
                   transformed, warp, warp_hi>>
    /\ UNCHANGED rotVars

NextCorners == CornersCall

SpecCorners == InitCorners /\ [][NextCorners]_vars

\* ------------------------------------------------------------------------
\* _apply_perspective_transform on ordered corners
\* ------------------------------------------------------------------------
\* config.padding_ratio values, in percent (0.0, the default 0.05, 0.1 and
\* 0.15).
WarpPaddings == {0, 5, 10, 15}
WarpConfigs ==
    {[NoConfig EXCEPT !.padding_ratio = p, !.use_local_model = TRUE,
                      !.fast_method = "threshold"] : p \in WarpPaddings}

\* src_pts [TL, TR, BR, BL]: quadrilaterals with integer corners whose four
\* edges vary independently.
WarpHeights == {h \in 1..MaxSide : h >= MaxSide - 2}
WarpQuads ==
    {<< <<0, 0>>, <<wt, 0>>, <<wb, hr>>, <<0, hl>> >> :
        wt \in 1..MaxSide, wb \in 1..MaxSide,
        hr \in WarpHeights, hl \in WarpHeights}

InitWarp ==
    /\ model_present = TRUE
    /\ os_environ = ""
    /\ config \in WarpConfigs
    /\ proc = "new"
    /\ bg_remover = "none"
    /\ caller = "none"
    /\ image_bytes = NoBytes
    /\ elapsed = 0
    /\ strategy_run = "none"
    /\ mask = NoMask
    /\ original = [kind |-> "original", w |-> MaxSide, h |-> MaxSide]
    /\ contour = NoLens
    /\ corner_src = NoCorners
    /\ pts = NoPts
    /\ angle = 0
    /\ ordered = NoPts
    /\ \E q \in WarpQuads : original_corners = [p |-> q, d |-> <<1, 1>>]
    /\ warp_src = "none"
    /\ transformed = NoImage
    /\ debug_out = {}
    /\ exc = NoExc
    /\ result = NoResult
    /\ pts_rot = NoPts
    /\ ordered_rot = NoPts
    /\ approx_calls = 0
    /\ opt = NoOpt
    /\ opt_out = NoOptOut
    /\ warp = NoWarp
    /\ warp_hi = NoWarp
    /\ rect = NoRect
    /\ threads = NoThreads
    /\ seg_out = NoSegOut
    /\ file_call = NoFileCall
    /\ api = NoApi
    /\ equiv_out = NoEquivOut
    /\ opt_calls = NoOptCalls
    /\ pc = "warp_call"

\* _apply_perspective_transform(original_image, original_corners)
WarpCall ==
    /\ pc = "warp_call"
    /\ warp_src' = original.kind
    /\ transformed' = apply_perspective_transform(
                          original, original_corners, config.padding_ratio)
    /\ warp' = transform_geometry(original_corners, config.padding_ratio)
    /\ pc' = "warp_done"
    /\ UNCHANGED <<model_present, os_environ, caller, image_bytes, elapsed,
                   strategy_run, mask, original, debug_out, exc, result>>
    /\ UNCHANGED procVars
    /\ UNCHANGED optVars
    /\ UNCHANGED <<contour, corner_src, pts, angle, ordered,
                   original_corners, approx_calls, warp_hi>>
    /\ UNCHANGED rotVars

\* The same image and corners rectified by an adapter configured with a
\* larger padding_ratio.
WarpHigherCall ==
    /\ pc = "warp_done"
    /\ \E r2 \in WarpPaddings :
          /\ r2 > config.padding_ratio
          /\ warp_hi' = transform_geometry(original_corners, r2)
    /\ pc' = "warp_hi_done"
    /\ UNCHANGED <<model_present, os_environ, caller, image_bytes, elapsed,
                   strategy_run, mask, original, debug_out, exc, result>>
    /\ UNCHANGED procVars
    /\ UNCHANGED optVars
    /\ UNCHANGED <<contour, corner_src, pts, angle, ordered,
                   original_corners, warp_src, transformed, approx_calls,
                   warp>>
    /\ UNCHANGED rotVars

NextWarp ==
    \/ WarpCall
    \/ WarpHigherCall

SpecWarp == InitWarp /\ [][NextWarp]_vars

\* ------------------------------------------------------------------------
\* UltraFastBackgroundRemovalAdapter._grabcut_removal
\* ------------------------------------------------------------------------
\* Image widths and heights handed to the GrabCut strategy.
GrabDims == {25 * n : n \in 1..MaxGrab}

MinDim(width, height) == IF width < height THEN width ELSE height

\* margin = int(min(width, height) * 0.1)
\* rect = (margin, margin, width - 2*margin, height - 2*margin)
grabcut_rect_per_axis(width, height) ==
    LET margin_x == width \div 10
        margin_y == height \div 10
    IN  <<margin_x, margin_y, width - 2 * margin_x, height - 2 * margin_y>>

grabcut_rect(width, height) ==
    LET margin == MinDim(width, height) \div 10
    IN  <<margin, margin, width - 2 * margin, height - 2 * margin>>

InitGrabCut ==
    /\ model_present = TRUE
    /\ os_environ = ""
    /\ config = [NoConfig EXCEPT !.use_ultrafast = TRUE,
                                 !.fast_method = "grabcut"]
    /\ proc = "new"
    /\ bg_remover = "none"
    /\ caller = "none"
    /\ image_bytes = NoBytes
    /\ elapsed = 0
    /\ strategy_run = "none"
    /\ mask = NoMask
    /\ \E width \in GrabDims, height \in GrabDims :
          original = [kind |-> "rgb", w |-> width, h |-> height]
    /\ contour = NoLens
    /\ corner_src = NoCorners
    /\ pts = NoPts
    /\ angle = 0
    /\ ordered = NoPts
    /\ original_corners = NoCornerSet
    /\ warp_src = "none"
    /\ transformed = NoImage
    /\ debug_out = {}
    /\ exc = NoExc
    /\ result = NoResult
    /\ pts_rot = NoPts
    /\ ordered_rot = NoPts
    /\ approx_calls = 0
    /\ opt = NoOpt
    /\ opt_out = NoOptOut
    /\ warp = NoWarp
    /\ warp_hi = NoWarp
    /\ rect = NoRect
    /\ threads = NoThreads
    /\ seg_out = NoSegOut
    /\ file_call = NoFileCall
    /\ api = NoApi
    /\ equiv_out = NoEquivOut
    /\ opt_calls = NoOptCalls
    /\ pc = "grabcut_call"

\* _grabcut_removal(img): the initialization rectangle; the result has the
\* size of img.
GrabCutCall ==
    /\ pc = "grabcut_call"
    /\ rect' = grabcut_rect(original.w, original.h)
    /\ strategy_run' = "grabcut"
    /\ mask' = [w |-> original.w, h |-> original.h, blobs |-> 1]
    /\ pc' = "grabcut_done"
    /\ UNCHANGED <<model_present, os_environ, caller, image_bytes, elapsed,
                   original, debug_out, exc, result>>
    /\ UNCHANGED procVars
    /\ UNCHANGED <<opt, opt_out, threads>>
    /\ UNCHANGED extVars
    /\ UNCHANGED geomVars
    /\ UNCHANGED rotVars

NextGrabCut == GrabCutCall

SpecGrabCut == InitGrabCut /\ [][NextGrabCut]_vars

\* ------------------------------------------------------------------------
\* OptimizedBackgroundRemovalAdapter (neural segmentation with fallback)
\* ------------------------------------------------------------------------
\* MODEL_CONFIGS: the model types and whether their download url is set.
ModelTypes == {"u2net", "u2net_lite", "silueta", "custom"}
model_url_set(t) == t # "custom"

OptConfigs == [model_type : ModelTypes, use_local_model : BOOLEAN]

\* OptimizedBackgroundRemovalAdapter._ensure_model_exists: a download is
\* attempted only when the file is missing and a url is configured.
opt_ensure_model_exists(present, url_set, dl) ==
    IF present \/ ~url_set
    THEN [present |-> present, raised |-> FALSE, msg |-> ""]
    ELSE ensure_model_exists(present, dl)

\* _initialize_onnx_session: no session without a model file; creating
\* the InferenceSession can fail (created says whether it succeeds), the
\* failure is logged and the session stays None.
initialize_onnx_session(present, created) == present /\ created

\* OptimizedBackgroundRemovalAdapter.__init__
ConstructOptimized ==
    /\ opt.state = "new"
    /\ \E c \in OptConfigs, dl \in DownloadOutcomes, created \in BOOLEAN :
          LET m == IF c.use_local_model
                   THEN opt_ensure_model_exists(model_present,
                            model_url_set(c.model_type), dl)
                   ELSE [present |-> model_present, raised |-> FALSE,
                         msg |-> ""]
          IN  /\ model_present' = m.present
              /\ IF m.raised
                 THEN /\ opt' = [state |-> "raised", session |-> FALSE,
                                 model_type |-> c.model_type,
                                 use_local_model |-> c.use_local_model,
                                 inits |-> 0]
                      /\ exc' = Exc("construct", "RuntimeError", m.msg)
                 ELSE /\ opt' = [state |-> "ready",
                                 session |->
                                     initialize_onnx_session(m.present,
                                                             created),
                                 model_type |-> c.model_type,
                                 use_local_model |-> c.use_local_model,
                                 inits |-> 1]
                      /\ exc' = exc
    /\ UNCHANGED <<os_environ, pc, caller, image_bytes, elapsed,
                   strategy_run, mask, original, debug_out, result, opt_out,
                   rect, threads>>
    /\ UNCHANGED extVars
    /\ UNCHANGED procVars
    /\ UNCHANGED geomVars
    /\ UNCHANGED rotVars

\* _fallback_rembg_processing: PIL opens the bytes, rembg.remove runs;
\* either may raise, and the exception is re-raised.
fallback_rembg_processing(b, rembg_ok) ==
    IF b.pil /\ rembg_ok THEN "fallback_ok" ELSE "fallback_raised"

\* remove_background_optimized: the steps it runs and how it ends.
\* infer_ok is the outcome of _run_onnx_inference, rembg1 and rembg2 those
\* of the first and the second call of rembg.remove.  A fallback called in
\* the try block that raises is caught by the except clause, which calls
\* the fallback again.
remove_background_optimized(session, b, infer_ok, rembg1, rembg2) ==
    LET second == <<fallback_rembg_processing(b, rembg2)>>
        ending(tr) ==
            [state |-> IF tr[Len(tr)] = "fallback_raised"
                       THEN "raised" ELSE "returned",
             strategy |-> IF tr[Len(tr)] = "postprocess" THEN "onnx"
                          ELSE IF tr[Len(tr)] = "fallback_ok" THEN "rembg"
                          ELSE "none",
             trace |-> tr]
    IN  IF ~b.pil
        THEN ending(<<"preprocess_raised">> \o second)
        ELSE IF session
             THEN IF infer_ok
                  THEN ending(<<"preprocess", "onnx", "postprocess">>)
                  ELSE ending(<<"preprocess", "onnx_raised">> \o second)
             ELSE IF fallback_rembg_processing(b, rembg1) = "fallback_ok"
                  THEN ending(<<"preprocess", "fallback_ok">>)
                  ELSE ending(<<"preprocess", "fallback_raised">>
                              \o second)

OptRemoveBackground ==
    /\ opt.state = "ready"
    /\ opt_out.state = "none"
    /\ \E b \in ImageBytes, infer_ok \in BOOLEAN, rembg1 \in BOOLEAN,
          rembg2 \in BOOLEAN :
          /\ image_bytes' = b
          /\ opt_out' = remove_background_optimized(opt.session, b,
                            infer_ok, rembg1, rembg2)
    /\ UNCHANGED <<model_present, os_environ, pc, caller, elapsed,
                   strategy_run, mask, original, debug_out, exc, result,
                   opt, rect, threads>>
    /\ UNCHANGED extVars
    /\ UNCHANGED procVars
    /\ UNCHANGED geomVars
    /\ UNCHANGED rotVars

InitOpt == Init

NextOpt ==
    \/ ConstructOptimized
    \/ OptRemoveBackground

SpecOpt == InitOpt /\ [][NextOpt]_vars

\* ------------------------------------------------------------------------
\* Concurrent callers of process_image on one PerspectraProcessor
\* ------------------------------------------------------------------------
Threads == 1..NThreads

\* Inputs of the concurrent invocations: what PIL and cv2 make of the
\* bytes, whether rembg.remove succeeds on them, and the foreground regions
\* of the mask it returns.
ThreadInputs ==
    { [pil |-> TRUE, cv |-> TRUE, rembg_ok |-> TRUE, blobs |-> 1],
      [pil |-> FALSE, cv |-> FALSE, rembg_ok |-> TRUE, blobs |-> 0],
      [pil |-> TRUE, cv |-> TRUE, rembg_ok |-> FALSE, blobs |-> 1],
      [pil |-> TRUE, cv |-> TRUE, rembg_ok |-> TRUE, blobs |-> 0] }
NoInput == [pil |-> FALSE, cv |-> FALSE, rembg_ok |-> FALSE, blobs |-> -1]

ThreadConfigs ==
    {[NoConfig EXCEPT !.use_local_model = l, !.save_contours = sc,
                      !.fast_method = "threshold", !.padding_ratio = 5] :
        l \in BOOLEAN, sc \in BOOLEAN}

\* An invocation: its position, its input, the U2NET_HOME value rembg read
\* and the invocation that wrote it (0: none), and the values returned.
IdleThread ==
    [pc |-> "Idle", input |-> NoInput, home |-> "unread", home_writer |-> 0,
     returned |-> FALSE, success |-> FALSE, image |-> NoInput]

InitThreads ==
    /\ model_present = TRUE
    /\ os_environ = ""
    /\ config \in ThreadConfigs
    /\ proc = "ready"
    /\ bg_remover = processor_bg_remover(config)
    /\ pc = "Idle"
    /\ caller = "none"
    /\ image_bytes = NoBytes
    /\ elapsed = 0
    /\ strategy_run = "none"
    /\ mask = NoMask
    /\ original = NoImage
    /\ contour = NoLens
    /\ corner_src = NoCorners
    /\ pts = NoPts
    /\ angle = 0
    /\ ordered = NoPts
    /\ original_corners = NoCornerSet
    /\ warp_src = "none"
    /\ transformed = NoImage
    /\ debug_out = {}
    /\ exc = NoExc
    /\ result = NoResult
    /\ pts_rot = NoPts
    /\ ordered_rot = NoPts
    /\ approx_calls = 0
    /\ opt = NoOpt
    /\ opt_out = NoOptOut
    /\ warp = NoWarp
    /\ warp_hi = NoWarp
    /\ rect = NoRect
    /\ threads = [inv |-> [t \in Threads |-> IdleThread], env_writer |-> 0]
    /\ seg_out = NoSegOut
    /\ file_call = NoFileCall
    /\ api = NoApi
    /\ equiv_out = NoEquivOut
    /\ opt_calls = NoOptCalls

ThreadFrame ==
    /\ UNCHANGED <<model_present, pc, caller, image_bytes, elapsed,
                   strategy_run, mask, original, exc, result>>
    /\ UNCHANGED procVars
    /\ UNCHANGED <<opt, opt_out, rect>>
    /\ UNCHANGED extVars
    /\ UNCHANGED geomVars
    /\ UNCHANGED rotVars

ThreadFails(t) ==
    [threads EXCEPT !.inv[t].pc = "Failed", !.inv[t].returned = TRUE]

\* process_image(image_bytes) is called by thread t.
ThreadStart(t) ==
    /\ proc = "ready"
    /\ threads.inv[t].pc = "Idle"
    /\ \E b \in ThreadInputs :
          threads' = [threads EXCEPT !.inv[t].pc = "load",
                                     !.inv[t].input = b]
    /\ UNCHANGED <<os_environ, debug_out>>
    /\ ThreadFrame

\* BackgroundRemovalAdapter._load_image_from_bytes
ThreadLoad(t) ==
    /\ threads.inv[t].pc = "load"
    /\ threads' = IF threads.inv[t].input.pil
                  THEN [threads EXCEPT !.inv[t].pc = "setenv"]
                  ELSE ThreadFails(t)
    /\ UNCHANGED <<os_environ, debug_out>>
    /\ ThreadFrame

\* _process_background_removal: os.environ["U2NET_HOME"] = str(model_dir)
ThreadSetEnv(t) ==
    /\ threads.inv[t].pc = "setenv"
    /\ IF config.use_local_model
       THEN /\ os_environ' = "models"
            /\ threads' = [threads EXCEPT !.inv[t].pc = "remove",
                                          !.env_writer = t]
       ELSE /\ os_environ' = os_environ
            /\ threads' = [threads EXCEPT !.inv[t].pc = "remove"]
    /\ UNCHANGED debug_out
    /\ ThreadFrame

\* _process_background_removal: rembg.remove looks its model up under
\* U2NET_HOME and segments the image.
ThreadRemove(t) ==
    /\ threads.inv[t].pc = "remove"
    /\ LET read == [threads EXCEPT !.inv[t].home = os_environ,
                                   !.inv[t].home_writer = threads.env_writer]
       IN  threads' = IF threads.inv[t].input.rembg_ok
                      THEN [read EXCEPT !.inv[t].pc = "correct"]
                      ELSE [read EXCEPT !.inv[t].pc = "Failed",
                                        !.inv[t].returned = TRUE]
    /\ UNCHANGED <<os_environ, debug_out>>
    /\ ThreadFrame

\* correct_perspective on the invocation's own mask and bytes;
\* _save_contour_debug writes into the directory named by the current
\* second, replacing the file another invocation wrote there.
ThreadCorrect(t) ==
    /\ threads.inv[t].pc = "correct"
    /\ LET b == threads.inv[t].input
       IN  IF b.cv /\ b.blobs > 0
           THEN /\ threads' = [threads EXCEPT !.inv[t].pc = "Succeeded",
                                              !.inv[t].returned = TRUE,
                                              !.inv[t].success = TRUE,
                                              !.inv[t].image = b]
                /\ debug_out' =
                      IF config.save_contours
                      THEN {e \in debug_out : e[2] # "contours"}
                           \cup {<<"file", "contours", t>>}
                      ELSE debug_out
           ELSE /\ threads' = ThreadFails(t)
                /\ debug_out' = debug_out
    /\ UNCHANGED os_environ
    /\ ThreadFrame

NextThreads ==
    \E t \in Threads :
        \/ ThreadStart(t)
        \/ ThreadLoad(t)
        \/ ThreadSetEnv(t)
        \/ ThreadRemove(t)
        \/ ThreadCorrect(t)

SpecThreads == InitThreads /\ [][NextThreads]_vars

\* ------------------------------------------------------------------------
\* Concurrent callers of one OptimizedBackgroundRemovalAdapter
\* ------------------------------------------------------------------------
\* Inputs of the concurrent calls: a decodable and an undecodable one.
OptThreadInputs ==
    {b \in ImageBytes : b.cv = b.pil /\ b.h = b.w /\ b.w <= MaxCoord + 1}

IdleOptThread ==
    [pc |-> "Idle", input |-> NoBytes, session_seen |-> FALSE,
     out |-> NoOptOut]

InitOptThreads ==
    /\ model_present \in BOOLEAN
    /\ os_environ = ""
    /\ config = NoConfig
    /\ proc = "new"
    /\ bg_remover = "none"
    /\ pc = "Idle"
    /\ caller = "none"
    /\ image_bytes = NoBytes
    /\ elapsed = 0
    /\ strategy_run = "none"
    /\ mask = NoMask
    /\ original = NoImage
    /\ contour = NoLens
    /\ corner_src = NoCorners
    /\ pts = NoPts
    /\ angle = 0
    /\ ordered = NoPts
    /\ original_corners = NoCornerSet
    /\ warp_src = "none"
    /\ transformed = NoImage
    /\ debug_out = {}
    /\ exc = NoExc
    /\ result = NoResult
    /\ pts_rot = NoPts
    /\ ordered_rot = NoPts
    /\ approx_calls = 0
    /\ opt = NoOpt
    /\ opt_out = NoOptOut
    /\ warp = NoWarp
    /\ warp_hi = NoWarp
    /\ rect = NoRect
    /\ threads = [inv |-> [t \in Threads |-> IdleOptThread], env_writer |-> 0]
    /\ seg_out = NoSegOut
    /\ file_call = NoFileCall
    /\ api = NoApi
    /\ equiv_out = NoEquivOut
    /\ opt_calls = NoOptCalls

\* Variant: a call that finds no session initializes one.
call_session_lazy(o, present, created) ==
    IF o.session THEN o
    ELSE [o EXCEPT !.session = initialize_onnx_session(present, created),
                   !.inits = @ + 1]

\* remove_background_optimized reads self.session and never assigns it.
call_session(o, present, created) == o

\* Thread t enters remove_background_optimized and reads self.session.
OptThreadCall(t) ==
    /\ opt.state = "ready"
    /\ threads.inv[t].pc = "Idle"
    /\ \E b \in OptThreadInputs, created \in BOOLEAN :
          LET o == call_session(opt, model_present, created)
          IN  /\ opt' = o
              /\ threads' = [threads EXCEPT !.inv[t].pc = "running",
                                            !.inv[t].input = b,
                                            !.inv[t].session_seen = o.session]
    /\ UNCHANGED <<model_present, os_environ, pc, caller, image_bytes,
                   elapsed, strategy_run, mask, original, debug_out, exc,
                   result, opt_out, rect>>
    /\ UNCHANGED extVars
    /\ UNCHANGED procVars
    /\ UNCHANGED geomVars
    /\ UNCHANGED rotVars

\* The call of thread t runs to its end.
OptThreadReturn(t) ==
    /\ threads.inv[t].pc = "running"
    /\ \E infer_ok \in BOOLEAN, rembg1 \in BOOLEAN, rembg2 \in BOOLEAN :
          threads' = [threads EXCEPT
                         !.inv[t].pc = "done",
                         !.inv[t].out = remove_background_optimized(
                                            threads.inv[t].session_seen,
                                            threads.inv[t].input,
                                            infer_ok, rembg1, rembg2)]
    /\ UNCHANGED <<model_present, os_environ, pc, caller, image_bytes,
                   elapsed, strategy_run, mask, original, debug_out, exc,
                   result, opt, opt_out, rect>>
    /\ UNCHANGED extVars
    /\ UNCHANGED procVars
    /\ UNCHANGED geomVars
    /\ UNCHANGED rotVars

NextOptThreads ==
    \/ ConstructOptimized
    \/ \E t \in Threads : OptThreadCall(t)
    \/ \E t \in Threads : OptThreadReturn(t)

SpecOptThreads == InitOptThreads /\ [][NextOptThreads]_vars

\* ------------------------------------------------------------------------
\* The segmentation adapters called on their own
\* ------------------------------------------------------------------------
\* The value a strategy writes into the pixels it classified as background:
\* the OpenCV strategies and _postprocess_result paint them white
\* (result[mask == 0] = [255, 255, 255]); rembg's cutout converted to RGB
\* leaves them black.
strategy_background(strategy) ==
    IF strategy \in {"threshold", "watershed", "grabcut", "onnx"} THEN 255
    ELSE 0

\* cv2.findContours treats every non-zero pixel as foreground.
contour_foreground(v) == v # 0

\* UltraFastBackgroundRemovalAdapter.remove_background: the image is opened
\* and the method run inside try; the except clause logs, opens the bytes
\* again and returns the decoded image.  Bytes PIL cannot open raise again
\* in the except clause.  algo_ok: the OpenCV calls of the method succeed.
fast_remove_background(method, b, algo_ok) ==
    IF ~b.pil
    THEN [state |-> "raised", value |-> "none", method |-> method,
          algorithm |-> "not run", background |-> -1,
          raised |-> Exc("segmentation", "UnidentifiedImageError",
                         "cannot identify image file")]
    ELSE IF algo_ok
         THEN [state |-> "returned", value |-> "segmented",
               method |-> method, algorithm |-> "ok",
               background |-> strategy_background(method),
               raised |-> NoExc]
         ELSE [state |-> "returned", value |-> "input image",
               method |-> method, algorithm |-> "failed",
               background |-> -1, raised |-> NoExc]

\* BackgroundRemovalAdapter.remove_background: _load_image_from_bytes and
\* _process_background_removal log and re-raise.
neural_remove_background(b, rembg_ok) ==
    IF ~b.pil
    THEN [state |-> "raised", value |-> "none", method |-> "neural",
          algorithm |-> "not run", background |-> -1,
          raised |-> Exc("segmentation", "UnidentifiedImageError",
                         "cannot identify image file")]
    ELSE IF rembg_ok
         THEN [state |-> "returned", value |-> "segmented",
               method |-> "neural", algorithm |-> "ok",
               background |-> strategy_background("neural"),
               raised |-> NoExc]
         ELSE [state |-> "raised", value |-> "none", method |-> "neural",
               algorithm |-> "failed", background |-> -1,
               raised |-> Exc("segmentation", "Exception", "rembg failed")]

\* Configurations of the adapters: the neural one and one per fast method.
SegmentConfigs ==
    {c \in Configs : ~c.use_optimized /\ ~c.save_contours
                     /\ ~c.save_transformed}

InitSegment ==
    /\ model_present = TRUE
    /\ os_environ = ""
    /\ config \in SegmentConfigs
    /\ proc = "new"
    /\ bg_remover = "none"
    /\ InvocationIdle

\* The mask a returned value is for corner extraction: the segmented image
\* has n regions, the decoded input is passed on as it is.
SegmentFrame ==
    /\ UNCHANGED <<model_present, pc, caller, elapsed, original, debug_out,
                   exc, result>>
    /\ UNCHANGED procVars
    /\ UNCHANGED <<opt, opt_out, rect, threads, file_call, api, equiv_out,
                   opt_calls>>
    /\ UNCHANGED geomVars
    /\ UNCHANGED rotVars

\* UltraFastBackgroundRemovalAdapter(config).remove_background(image_bytes)
SegmentFast ==
    /\ config.use_ultrafast
    /\ seg_out.state = "none"
    /\ \E b \in ImageBytes, algo_ok \in BOOLEAN, n \in 0..MaxBlobs :
          LET o == fast_remove_background(config.fast_method, b, algo_ok)
          IN  /\ image_bytes' = b
              /\ seg_out' = o
              /\ strategy_run' = IF o.algorithm = "not run" THEN strategy_run
                                 ELSE config.fast_method
              /\ mask' = IF o.state = "returned"
                         THEN [w |-> b.w, h |-> b.h,
                               blobs |-> IF o.value = "segmented" THEN n
                                         ELSE 1]
                         ELSE mask
    /\ UNCHANGED os_environ
    /\ SegmentFrame

\* BackgroundRemovalAdapter(config).remove_background(image_bytes)
SegmentNeural ==
    /\ ~config.use_ultrafast
    /\ seg_out.state = "none"
    /\ \E b \in ImageBytes, rembg_ok \in BOOLEAN, n \in 0..MaxBlobs :
          LET o == neural_remove_background(b, rembg_ok)
          IN  /\ image_bytes' = b
              /\ seg_out' = o
              /\ os_environ' = IF b.pil /\ config.use_local_model
                               THEN "models" ELSE os_environ
              /\ strategy_run' = IF o.algorithm = "not run" THEN strategy_run
                                 ELSE "neural"
              /\ mask' = IF o.state = "returned"
                         THEN [w |-> b.w, h |-> b.h, blobs |-> n]
                         ELSE mask
    /\ SegmentFrame

NextSegment ==
    \/ SegmentFast
    \/ SegmentNeural

SpecSegment == InitSegment /\ [][NextSegment]_vars

\* ------------------------------------------------------------------------
\* PerspectraProcessor.process_image_from_file
\* ------------------------------------------------------------------------
\* What open(image_path, 'rb') and f.read() do: "ok", or str(e) of the
\* OSError they raise.
PathOutcomes ==
    {"ok", "[Errno 2] No such file or directory",
     "[Errno 13] Permission denied", "[Errno 21] Is a directory"}

\* Variant: the failure tuple carries str(e) alone.
read_failure_result_bare(msg) ==
    [returned |-> TRUE, success |-> FALSE, error_message |-> msg,
     has_image |-> FALSE, image |-> NoImage, duration |-> 0]

\* except Exception as e:  return False, f"Failed to read image file:
\* {str(e)}", None, 0.0
read_failure_result(msg) ==
    [returned |-> TRUE, success |-> FALSE,
     error_message |-> "Failed to read image file: " \o msg,
     has_image |-> FALSE, image |-> NoImage, duration |-> 0]

\* return self.process_image(image_bytes)
from_file_return(r) == r

\* The processor has been constructed with the default strategy.
FileConfigs == {c \in Configs : ~c.use_ultrafast /\ ~c.use_optimized}

InitFile ==
    /\ model_present = TRUE
    /\ os_environ = ""
    /\ config \in FileConfigs
    /\ proc = "ready"
    /\ bg_remover = processor_bg_remover(config)
    /\ InvocationIdle

\* process_image_from_file(image_path): the file is opened and read; on
\* success process_image is entered with the bytes read, on failure the
\* except clause returns the failure tuple.
FromFileOpen ==
    /\ proc = "ready"
    /\ pc = "Idle"
    /\ file_call.state = "none"
    /\ \E o \in PathOutcomes :
          IF o = "ok"
          THEN /\ \E b \in ImageBytes : image_bytes' = b
               /\ caller' = "process_image"
               /\ pc' = "load"
               /\ file_call' = [state |-> "processing", path |-> o,
                                result |-> NoResult]
          ELSE /\ file_call' = [state |-> "returned", path |-> o,
                                result |-> read_failure_result(o)]
               /\ UNCHANGED <<image_bytes, caller, pc>>
    /\ UNCHANGED <<model_present, os_environ, elapsed, strategy_run, mask,
                   original, debug_out, exc, result>>
    /\ UNCHANGED procVars
    /\ UNCHANGED <<opt, opt_out, rect, threads, seg_out, api, equiv_out,
                   opt_calls>>
    /\ UNCHANGED geomVars
    /\ UNCHANGED rotVars

\* process_image returned: its tuple is the tuple of process_image_from_file.
FromFileReturn ==
    /\ file_call.state = "processing"
    /\ pc \in {"Succeeded", "Failed"}
    /\ file_call' = [file_call EXCEPT !.state = "returned",
                                      !.result = from_file_return(result)]
    /\ UNCHANGED <<model_present, os_environ, pc, caller, image_bytes,
                   elapsed, strategy_run, mask, original, debug_out, exc,
                   result>>
    /\ UNCHANGED procVars
    /\ UNCHANGED <<opt, opt_out, rect, threads, seg_out, api, equiv_out,
                   opt_calls>>
    /\ UNCHANGED geomVars
    /\ UNCHANGED rotVars

NextFile ==
    \/ FromFileOpen
    \/ LoadImage
    \/ RemoveBackground
    \/ DecodeOriginal
    \/ FindContours
    \/ FindCorners
    \/ OrderPoints
    \/ ScaleCorners
    \/ Rectify
    \/ Return
    \/ Handler
    \/ FromFileReturn

SpecFile == InitFile /\ [][NextFile]_vars

\* ------------------------------------------------------------------------
\* PerspectiveAndContourAdapter (API service)
\* ------------------------------------------------------------------------
\* find_corners: epsilons = [0.01, 0.02, 0.03, 0.05, 0.1]; the first
\* simplification with four points is returned, one with fewer ends the
\* loop, and minAreaRect/boxPoints is the fallback.
api_epsilons == <<1, 2, 3, 5, 10>>

RECURSIVE api_find_corners_from(_, _)
api_find_corners_from(lens, i) ==
    IF i <= Len(api_epsilons)
    THEN IF lens[i] = 4
         THEN [src |-> "approxPolyDP", eps |-> api_epsilons[i],
               tried |-> i, npoints |-> 4]
         ELSE IF lens[i] < 4
              THEN [src |-> "minAreaRect", eps |-> 0, tried |-> i,
                    npoints |-> 4]
              ELSE api_find_corners_from(lens, i + 1)
    ELSE [src |-> "minAreaRect", eps |-> 0, tried |-> Len(api_epsilons),
          npoints |-> 4]

api_find_corners(lens) == api_find_corners_from(lens, 1)

\* order_points: angle between x0 and x1, then the role assignment.
api_order_points(pts_, x_sorted, y_sorted) ==
    LET dx == x_sorted[2][1] - x_sorted[1][1]
        dy == x_sorted[2][2] - x_sorted[1][2]
        nonneg == AngleSign(dx, dy) >= 0
        BL == IF nonneg THEN x_sorted[1] ELSE y_sorted[4]
        TR == IF nonneg THEN x_sorted[4] ELSE y_sorted[1]
        TL == IF nonneg THEN y_sorted[1] ELSE x_sorted[1]
        rest == {i \in Idx : pts_[i] # BL /\ pts_[i] # TR /\ pts_[i] # TL}
        BR == IF rest = {} THEN <<>>
              ELSE pts_[CHOOSE i \in rest : \A j \in rest : i <= j]
    IN  <<TL, TR, BR, BL>>

\* Variant: the corners are scaled only when the widths differ.
api_scale_corners_on_width(o, mask_w, mask_h, orig_w, orig_h) ==
    IF mask_w = orig_w
    THEN [p |-> o, d |-> <<1, 1>>]
    ELSE LET gx == GCD(orig_w, mask_w)
             gy == GCD(orig_h, mask_h)
         IN  [p |-> [i \in Idx |-> <<o[i][1] * (orig_w \div gx),
                                     o[i][2] * (orig_h \div gy)>>],
              d |-> <<mask_w \div gx, mask_h \div gy>>]

\* __call__: corners[:, 0] *= orig_width / mask_width, corners[:, 1] *=
\* orig_height / mask_height when the dimensions differ.
api_scale_corners(o, mask_w, mask_h, orig_w, orig_h) ==
    IF mask_w = orig_w /\ mask_h = orig_h
    THEN [p |-> o, d |-> <<1, 1>>]
    ELSE LET gx == GCD(orig_w, mask_w)
             gy == GCD(orig_h, mask_h)
         IN  [p |-> [i \in Idx |-> <<o[i][1] * (orig_w \div gx),
                                     o[i][2] * (orig_h \div gy)>>],
              d |-> <<mask_w \div gx, mask_h \div gy>>]

\* padding_factor = 0.05, in percent.
api_padding_factor == 5

\* perspective_transform: averaged edge lengths, 5% padding, canvas and
\* destination rectangle.
api_perspective_geometry(c) ==
    LET D == c.d[1] * c.d[2]
        final_width == IntAvg(SqDist(c, 1, 2), SqDist(c, 3, 4), D)
        final_height == IntAvg(SqDist(c, 4, 1), SqDist(c, 2, 3), D)
        width_padding == (final_width * api_padding_factor) \div 100
        height_padding == (final_height * api_padding_factor) \div 100
        padded_width == final_width + 2 * width_padding
        padded_height == final_height + 2 * height_padding
    IN  [final_width |-> final_width, final_height |-> final_height,
         width_padding |-> width_padding,
         height_padding |-> height_padding,
         padded_width |-> padded_width, padded_height |-> padded_height,
         dst_pts |-> << <<width_padding, height_padding>>,
                        <<padded_width - width_padding - 1, height_padding>>,
                        <<padded_width - width_padding - 1,
                          padded_height - height_padding - 1>>,
                        <<width_padding,
                          padded_height - height_padding - 1>> >>,
         padding |-> api_padding_factor]

\* cv2.warpPerspective(mask, M, (padded_width, padded_height)): the canvas;
\* a dsize with a zero side allocates the source's size.
api_warp(image, g) ==
    IF g.padded_width <= 0 \/ g.padded_height <= 0
    THEN [kind |-> "warped", w |-> image.w, h |-> image.h]
    ELSE [kind |-> "warped", w |-> g.padded_width, h |-> g.padded_height]

AdapterRaised(e) == [NoAdapterOut EXCEPT !.state = "raised", !.raised = e]

\* PerspectiveAndContourAdapter.__call__(mask, bytes_image) for the
\* approxPolyDP lengths lens of the largest contour, the four points q of
\* the accepted simplification, and the outcomes xs, ys of the two argsort
\* calls.  The debug writes are inside their own try/except.
api_perspective_call(b, m, lens, q, xs, ys) ==
    IF ~b.cv
    THEN AdapterRaised(Exc("decode", "AttributeError",
                           "'NoneType' object has no attribute 'shape'"))
    ELSE IF m.blobs = 0
    THEN AdapterRaised(Exc("corner_extraction", "ValueError",
                           "Maskede kontur bulunamadi."))
    ELSE LET o == api_order_points(q, xs, ys)
         IN  IF o[3] = <<>>
             THEN AdapterRaised(Exc("corner_extraction", "ValueError",
                      "setting an array element with a sequence."))
             ELSE LET oc == api_scale_corners(o, m.w, m.h, b.w, b.h)
                      g == api_perspective_geometry(oc)
                  IN  [state |-> "returned", raised |-> NoExc,
                       contour |-> lens,
                       corner_src |-> api_find_corners(lens),
                       ordered |-> o, original_corners |-> oc,
                       geometry |-> g,
                       image |-> api_warp([kind |-> "original",
                                           w |-> b.w, h |-> b.h], g)]

\* PerspectiveCorrectionAdapter.correct_perspective(mask, bytes) as one
\* call, for the same primitives' outcomes.
lib_perspective_call(c, b, m, lens, q, xs, ys) ==
    IF ~b.cv
    THEN AdapterRaised(Exc("decode", "AttributeError",
                           "'NoneType' object has no attribute 'shape'"))
    ELSE IF no_contours(m)
    THEN AdapterRaised(Exc("corner_extraction", "ValueError",
                           "No contours found in mask."))
    ELSE LET o == order_points(q, xs, ys)
         IN  IF o[3] = <<>>
             THEN AdapterRaised(Exc("corner_extraction", "ValueError",
                      "setting an array element with a sequence."))
             ELSE LET oc == scale_corners(MaskCorners(o), m.w, m.h,
                                          b.w, b.h)
                      orig == [kind |-> "original", w |-> b.w, h |-> b.h]
                  IN  [state |-> "returned", raised |-> NoExc,
                       contour |-> lens,
                       corner_src |-> find_corners(lens),
                       ordered |-> o, original_corners |-> oc,
                       geometry |-> transform_geometry(oc, c.padding_ratio),
                       image |-> apply_perspective_transform(
                                     rectify_input(orig, m), oc,
                                     c.padding_ratio)]

\* Masks and approxPolyDP outcomes given to the two adapters.
EquivLens ==
    LensSamples \cup { [i \in 1..NEps |-> MaxApproxLen],
                       [i \in 1..NEps |-> IF i = 1 THEN 4 ELSE 3] }

\* Original images given to the two adapters: of the mask's size or ten
\* times as large, decodable by cv2 or not.
EquivDims == {MaxCoord + 1, 10 * (MaxCoord + 1)}
EquivBytes == [pil : {TRUE}, cv : BOOLEAN, w : EquivDims, h : EquivDims]

\* The library adapter with its default padding_ratio and debug output off.
EquivConfigs ==
    {c \in CorrectorConfigs :
        ~c.save_contours /\ ~c.save_transformed /\ c.padding_ratio = 5}

InitEquiv ==
    /\ model_present = TRUE
    /\ os_environ = ""
    /\ config \in EquivConfigs
    /\ proc = "new"
    /\ bg_remover = "none"
    /\ InvocationIdle

\* Both adapters are called with one mask and one original image.
EquivCall ==
    /\ equiv_out.state = "none"
    /\ \E b \in EquivBytes, m \in Masks, lens \in EquivLens,
          q \in QuadSamples :
          \E xs \in SortedBy(q, 1), ys \in SortedBy(q, 2) :
             /\ image_bytes' = b
             /\ mask' = m
             /\ pts' = q
             /\ equiv_out' =
                   [state |-> "done",
                    lib |-> lib_perspective_call(config, b, m, lens, q,
                                                 xs, ys),
                    api |-> api_perspective_call(b, m, lens, q, xs, ys)]
    /\ UNCHANGED <<model_present, os_environ, pc, caller, elapsed,
                   strategy_run, original, debug_out, exc, result>>
    /\ UNCHANGED procVars
    /\ UNCHANGED <<opt, opt_out, rect, threads, seg_out, file_call, api,
                   opt_calls>>
    /\ UNCHANGED <<contour, corner_src, angle, ordered, original_corners,
                   warp_src, transformed, approx_calls, warp, warp_hi>>
    /\ UNCHANGED rotVars

NextEquiv == EquivCall

SpecEquiv == InitEquiv /\ [][NextEquiv]_vars

\* ------------------------------------------------------------------------
\* PerspectraAdapterService.__call__ (API service)
\* ------------------------------------------------------------------------
\* PerspectraResponseModel(is_background_removed=True, is_image_wrapped=True,
\* error_message="", result=True, duration=..., processed_image=image_base64)
api_success_response(dur) ==
    [is_background_removed |-> TRUE, is_image_wrapped |-> TRUE,
     error_message |-> "", result |-> TRUE, duration |-> dur,
     processed_image |-> "base64 png"]

\* except Exception as e: PerspectraResponseModel(is_background_removed=
\* False, is_image_wrapped=False, error_message=str(e), result=False, ...)
api_failure_response(e, dur) ==
    [is_background_removed |-> FALSE, is_image_wrapped |-> FALSE,
     error_message |-> e.msg, result |-> FALSE, duration |-> dur,
     processed_image |-> ""]

InitApi ==
    /\ model_present = TRUE
    /\ os_environ = ""
    /\ config = NoConfig
    /\ proc = "new"
    /\ bg_remover = "none"
    /\ InvocationIdle

ApiFrame ==
    /\ UNCHANGED <<model_present, pc, caller, strategy_run, original,
                   debug_out, result>>
    /\ UNCHANGED procVars
    /\ UNCHANGED <<opt, opt_out, rect, threads, seg_out, file_call,
                   equiv_out, opt_calls>>
    /\ UNCHANGED <<contour, corner_src, angle, original_corners, warp_src,
                   approx_calls, warp_hi>>
    /\ UNCHANGED rotVars

\* The except clause of __call__ builds the failure response.
ApiFails(e) ==
    /\ exc' = e
    /\ api' = [api EXCEPT !.state = "responded",
                          !.response = api_failure_response(e, elapsed + 1)]

\* A request arrives: start_time = time.time().
ApiRequest ==
    /\ api.state = "none"
    /\ \E b \in ImageBytes, l \in BOOLEAN :
          /\ image_bytes' = b
          /\ api' = [api EXCEPT !.state = "remove", !.use_local_model = l]
    /\ elapsed' = 0
    /\ UNCHANGED <<os_environ, mask, pts, ordered, transformed, warp, exc>>
    /\ ApiFrame

\* BackgroundRemoveAdapter.__call__: reload_with_pil, then remove_background
\* (U2NET_HOME is set, rembg.remove runs).
ApiRemoveBackground ==
    /\ api.state = "remove"
    /\ elapsed' = elapsed + 1
    /\ \E rembg_ok \in BOOLEAN, n \in 0..MaxBlobs :
          IF ~image_bytes.pil
          THEN /\ ApiFails(Exc("segmentation", "UnidentifiedImageError",
                               "cannot identify image file"))
               /\ UNCHANGED <<mask, os_environ>>
          ELSE /\ os_environ' = IF api.use_local_model THEN "models"
                                ELSE os_environ
               /\ IF rembg_ok
                  THEN /\ mask' = [w |-> image_bytes.w, h |-> image_bytes.h,
                                   blobs |-> n]
                       /\ api' = [api EXCEPT !.state = "perspective",
                                             !.bg_done = TRUE]
                       /\ exc' = exc
                  ELSE /\ ApiFails(Exc("segmentation", "Exception",
                                       "rembg failed"))
                       /\ UNCHANGED mask
    /\ UNCHANGED <<image_bytes, pts, ordered, transformed, warp>>
    /\ ApiFrame

\* PerspectiveAndContourAdapter.__call__(backgroud_mask, request.image)
ApiPerspective ==
    /\ api.state = "perspective"
    /\ elapsed' = elapsed + 1
    /\ \E lens \in LensSamples, q \in QuadSamples :
          \E xs \in SortedBy(q, 1), ys \in SortedBy(q, 2) :
             LET r == api_perspective_call(image_bytes, mask, lens, q,
                                           xs, ys)
             IN  IF r.state = "returned"
                 THEN /\ pts' = q
                      /\ ordered' = r.ordered
                      /\ warp' = r.geometry
                      /\ transformed' = r.image
                      /\ api' = [api EXCEPT !.state = "encode",
                                            !.warp_done = TRUE]
                      /\ exc' = exc
                 ELSE /\ ApiFails(r.raised)
                      /\ UNCHANGED <<pts, ordered, warp, transformed>>
    /\ UNCHANGED <<image_bytes, mask, os_environ>>
    /\ ApiFrame

\* cv2.imencode(".png", transformed_image), base64, and the response.
ApiEncode ==
    /\ api.state = "encode"
    /\ elapsed' = elapsed + 1
    /\ \E encode_ok \in BOOLEAN :
          IF encode_ok
          THEN /\ api' = [api EXCEPT
                             !.state = "responded",
                             !.response = api_success_response(elapsed + 1)]
               /\ exc' = exc
          ELSE ApiFails(Exc("encode", "error", "imencode failed"))
    /\ UNCHANGED <<image_bytes, mask, os_environ, pts, ordered, transformed,
                   warp>>
    /\ ApiFrame

NextApi ==
    \/ ApiRequest
    \/ ApiRemoveBackground
    \/ ApiPerspective
    \/ ApiEncode

SpecApi == InitApi /\ [][NextApi]_vars

\* ------------------------------------------------------------------------
\* An OptimizedBackgroundRemovalAdapter over several calls
\* ------------------------------------------------------------------------
\* The model file is put under models/ after the adapter was constructed
\* without it.
ModelArrives ==
    /\ opt.state = "ready"
    /\ ~model_present
    /\ model_present' = TRUE
    /\ opt_calls' = [opt_calls EXCEPT !.arrived = TRUE]
    /\ UNCHANGED <<os_environ, pc, caller, image_bytes, elapsed,
                   strategy_run, mask, original, debug_out, exc, result>>
    /\ UNCHANGED procVars
    /\ UNCHANGED <<opt, opt_out, rect, threads, seg_out, file_call, api,
                   equiv_out>>
    /\ UNCHANGED geomVars
    /\ UNCHANGED rotVars

\* remove_background_optimized(image_bytes), one call after another.
OptCall ==
    /\ opt.state = "ready"
    /\ opt_calls.n < MaxCalls
    /\ \E b \in OptThreadInputs, created \in BOOLEAN, infer_ok \in BOOLEAN,
          rembg1 \in BOOLEAN, rembg2 \in BOOLEAN :
          LET o == call_session(opt, model_present, created)
              out == remove_background_optimized(o.session, b, infer_ok,
                                                 rembg1, rembg2)
          IN  /\ opt' = o
              /\ image_bytes' = b
              /\ opt_out' = out
              /\ opt_calls' = [opt_calls EXCEPT
                                  !.n = @ + 1,
                                  !.last = [present |-> model_present,
                                            created |-> created,
                                            input |-> b,
                                            session |-> o.session,
                                            out |-> out]]
    /\ UNCHANGED <<model_present, os_environ, pc, caller, elapsed,
                   strategy_run, mask, original, debug_out, exc, result>>
    /\ UNCHANGED procVars
    /\ UNCHANGED <<rect, threads, seg_out, file_call, api, equiv_out>>
    /\ UNCHANGED geomVars
    /\ UNCHANGED rotVars

InitLazy == Init

NextLazy ==
    \/ ConstructOptimized
    \/ ModelArrives
    \/ OptCall

SpecLazy == InitLazy /\ [][NextLazy]_vars

\* ------------------------------------------------------------------------
\* Properties
\* ------------------------------------------------------------------------
Range(f) == {f[i] : i \in DOMAIN f}
MinOf(S) == CHOOSE m \in S : \A n \in S : m <= n
MaxOf(S) == CHOOSE m \in S : \A n \in S : m >= n
Sgn(n) == IF n > 0 THEN 1 ELSE IF n < 0 THEN -1 ELSE 0

\* C1: process_image always returns its tuple and no exception escapes it:
\* a success carries an empty message and a warped image, a failure carries
\* no image, and bytes no decoder accepts give a failure.
C1_NoPartialResult ==
    /\ caller = "process_image" => pc # "Raised"
    /\ (caller = "process_image" /\ pc \in {"Succeeded", "Failed"})
          => result.returned
    /\ result.returned =>
          /\ result.success <=> pc = "Succeeded"
          /\ result.success =>
                /\ result.error_message = ""
                /\ result.has_image
                /\ result.image.kind = "warped"
                /\ result.image = transformed
          /\ ~result.success =>
                /\ ~result.has_image
                /\ result.image = NoImage
          /\ (~image_bytes.pil /\ ~image_bytes.cv) => ~result.success

\* C1 witness: undecodable bytes were processed and reported as a failure.
C1_Witness ==
    /\ pc = "Failed"
    /\ ~image_bytes.pil /\ ~image_bytes.cv
    /\ result.returned /\ ~result.success
    /\ exc.kind = "UnidentifiedImageError"

\* What a returned tuple carries as text.
ResultTexts == {result.error_message}

FailurePoint(e) ==
    IF e.kind = "UnidentifiedImageError" THEN 1
    ELSE IF e.msg = "rembg failed" THEN 2
    ELSE IF e.kind = "AttributeError" THEN 3
    ELSE IF e.msg = "No contours found in mask." THEN 4
    ELSE 6

selected_strategy(c) == IF c.use_ultrafast THEN c.fast_method ELSE "neural"

\* C3 (as claimed): the mask is produced by the strategy the configuration
\* selects.
C3_StrategyFollowsConfig ==
    strategy_run # "none" => strategy_run = selected_strategy(config)

\* C4 (as claimed): a missing model file causes no hard failure, neither at
\* construction nor at the call; with valid input and rembg working the
\* call returns the fallback's result.
C4_DegradesWithoutModel ==
    /\ opt.state # "raised"
    /\ (/\ opt_out.state # "none"
        /\ ~model_present
        /\ image_bytes.pil
        /\ "fallback_raised" \notin Range(opt_out.trace))
          => (opt_out.state = "returned" /\ opt_out.strategy = "rembg")

\* C5: for a mask without foreground region corner extraction raises the
\* no-contour error, no corner set is produced, rectification does not run
\* and process_image reports a failure.
C5_EmptyMaskFails ==
    (mask # NoMask /\ mask.blobs = 0) =>
        /\ pc \notin {"corners", "order", "scale", "rectify", "return",
                      "Succeeded", "Returned"}
        /\ corner_src = NoCorners
        /\ ordered = NoPts
        /\ original_corners = NoCornerSet
        /\ warp_src = "none"
        /\ transformed = NoImage
        /\ (original # NoImage /\ pc # "contours") =>
              /\ pc \in {"raise", "Failed", "Raised"}
              /\ exc = Exc("corner_extraction", "ValueError",
                           "No contours found in mask.")
        /\ result.returned => ~result.success

\* C5 witness: process_image failed on an all-zero mask with the no-contour
\* error.
C5_Witness ==
    /\ pc = "Failed"
    /\ mask # NoMask /\ mask.blobs = 0
    /\ exc.msg = "No contours found in mask."
    /\ ~result.success

AllDistinct(p) == \A i, j \in Idx : i # j => p[i] # p[j]

\* The four points are the corners of an axis-aligned rectangle.
IsAxisRect(p) ==
    LET X == {p[i][1] : i \in Idx}
        Y == {p[i][2] : i \in Idx}
    IN  /\ AllDistinct(p)
        /\ Cardinality(X) = 2
        /\ Cardinality(Y) = 2

\* C6 (as claimed): the corners of an axis-aligned rectangle, in any input
\* order, are returned as [(xmin,ymin), (xmax,ymin), (xmax,ymax), (xmin,ymax)].
C6_AxisAlignedOrder ==
    (pc = "order_done" /\ IsAxisRect(pts)) =>
        LET X == {pts[i][1] : i \in Idx}
            Y == {pts[i][2] : i \in Idx}
        IN  ordered = << <<MinOf(X), MinOf(Y)>>, <<MaxOf(X), MinOf(Y)>>,
                         <<MaxOf(X), MaxOf(Y)>>, <<MinOf(X), MaxOf(Y)>> >>

\* C7 (as claimed): passing four distinct points in a rotated order gives
\* the same [TL, TR, BR, BL].
C7_RotationInvariant ==
    (pc = "rot_done" /\ AllDistinct(pts)) => ordered_rot = ordered

\* BR is the first input point that is not among the assigned ones (<<>>
\* when every input point is assigned).
IsFirstUnassigned(br, p, used) ==
    \/ br = <<>> /\ \A i \in Idx : p[i] \in used
    \/ \E i \in Idx :
          /\ p[i] = br
          /\ p[i] \notin used
          /\ \A j \in Idx : j < i => p[j] \in used

\* C8: the angle is that of the segment between the two smallest-x points
\* with the vertical sign inverted; a non-negative angle assigns BL =
\* smallest x, TR = largest x, TL = smallest y, a negative one BL = largest y,
\* TR = smallest y, TL = smallest x; BR is the first input point left over;
\* the result is [TL, TR, BR, BL].
C8_AngleRule ==
    pc = "order_done" =>
        LET TL == ordered[1]
            TR == ordered[2]
            BR == ordered[3]
            BL == ordered[4]
            X == {pts[i][1] : i \in Idx}
            Y == {pts[i][2] : i \in Idx}
            first == IF angle >= 0 THEN BL ELSE TL
        IN  /\ Len(ordered) = 4
            /\ {TL, TR, BL} \subseteq Range(pts)
            /\ \E i, j \in Idx :
                  /\ i # j
                  /\ pts[i] = first
                  /\ pts[i][1] <= pts[j][1]
                  /\ \A k \in Idx \ {i, j} : pts[j][1] <= pts[k][1]
                  /\ angle = -Sgn(pts[j][2] - pts[i][2])
            /\ angle >= 0 =>
                  /\ BL[1] = MinOf(X)
                  /\ TR[1] = MaxOf(X)
                  /\ TL[2] = MinOf(Y)
            /\ angle < 0 =>
                  /\ BL[2] = MaxOf(Y)
                  /\ TR[2] = MinOf(Y)
                  /\ TL[1] = MinOf(X)
            /\ IsFirstUnassigned(BR, pts, {BL, TR, TL})

\* C8 witness: four distinct points were ordered through the negative-angle
\* branch.
C8_Witness ==
    /\ pc = "order_done"
    /\ AllDistinct(pts)
    /\ angle < 0
    /\ ordered[3] # <<>>

\* C9: the tolerances 1, 2, 3, 5, 10 percent are tried in this order; the
\* first one that yields four points is accepted; the loop ends at the first
\* one that yields fewer than four; without an accepted tolerance the
\* result is the minimum-area rectangle; four points are returned.
C9_QuadReduction ==
    pc = "corners_done" =>
        LET stop == {i \in 1..NEps : contour[i] <= 4}
        IN  /\ epsilons = <<1, 2, 3, 5, 10>>
            /\ corner_src.npoints = 4
            /\ IF stop = {}
               THEN /\ approx_calls = NEps
                    /\ corner_src.src = "minAreaRect"
               ELSE LET k == MinOf(stop)
                    IN  /\ approx_calls = k
                        /\ contour[k] = 4 =>
                              /\ corner_src.src = "approxPolyDP"
                              /\ corner_src.eps = epsilons[k]
                        /\ contour[k] < 4 => corner_src.src = "minAreaRect"

\* C9 witness: a tolerance yielded fewer than four points before any
\* yielded four, although a higher one would have.
C9_Witness ==
    /\ pc = "corners_done"
    /\ contour[1] > 4 /\ contour[2] < 4 /\ contour[3] = 4
    /\ corner_src.src = "minAreaRect"
    /\ approx_calls = 2

\* C10: the corners handed to rectification are the mask corners with x
\* multiplied by image_width / mask_width and y by image_height /
\* mask_height, in the same order; with equal sizes they are unchanged;
\* the image that is warped is the original image.
C10_CornerScaling ==
    original_corners # NoCornerSet =>
        /\ \A i \in Idx :
              /\ original_corners.p[i][1] * mask.w
                    = ordered[i][1] * original.w * original_corners.d[1]
              /\ original_corners.p[i][2] * mask.h
                    = ordered[i][2] * original.h * original_corners.d[2]
        /\ (mask.w = original.w /\ mask.h = original.h)
              => original_corners = MaskCorners(ordered)
        /\ warp_src \in {"none", "original"}
        /\ transformed # NoImage => warp_src = "original"

\* C10 witness: corners of a mask narrower and taller than the image were
\* scaled and the image was rectified.
C10_Witness ==
    /\ pc = "Returned"
    /\ mask.w < original.w
    /\ mask.h > original.h
    /\ \E i \in Idx : ordered[i][1] > 0 /\ ordered[i][2] > 0
    /\ original_corners # MaskCorners(ordered)
    /\ transformed.kind = "warped"

\* C11 (as claimed): the padding of each axis is the target size times
\* padding_ratio rounded to the nearest integer, the canvas is the target
\* size plus twice the padding, and the padding is the same on both sides.
AbsVal(n) == IF n < 0 THEN -n ELSE n
SymmetricCanvas ==
    /\ transformed.w = warp.final_width + 2 * warp.width_padding
    /\ transformed.h = warp.final_height + 2 * warp.height_padding
    /\ warp.dst_pts[1] = <<warp.width_padding, warp.height_padding>>
    /\ transformed.w - 1 - warp.dst_pts[3][1] = warp.width_padding
    /\ transformed.h - 1 - warp.dst_pts[3][2] = warp.height_padding
    /\ warp.dst_pts[2] = <<warp.dst_pts[3][1], warp.dst_pts[1][2]>>
    /\ warp.dst_pts[4] = <<warp.dst_pts[1][1], warp.dst_pts[3][2]>>
C11_RoundedPadding ==
    pc \in {"warp_done", "warp_hi_done"} =>
        /\ 2 * AbsVal(100 * warp.width_padding
                      - warp.final_width * config.padding_ratio) <= 100
        /\ 2 * AbsVal(100 * warp.height_padding
                      - warp.final_height * config.padding_ratio) <= 100
        /\ SymmetricCanvas

\* C11 (amended): the padding of each axis is the target size times
\* padding_ratio truncated to an integer; the canvas is the target size plus
\* twice the padding, with the same padding on both sides of each axis.
C11_TruncatedPadding ==
    pc \in {"warp_done", "warp_hi_done"} =>
        /\ 100 * warp.width_padding
              <= warp.final_width * config.padding_ratio
        /\ warp.final_width * config.padding_ratio
              < 100 * (warp.width_padding + 1)
        /\ 100 * warp.height_padding
              <= warp.final_height * config.padding_ratio
        /\ warp.final_height * config.padding_ratio
              < 100 * (warp.height_padding + 1)
        /\ SymmetricCanvas

\* C11 witness: a rectification whose width padding is positive and whose
\* product target_width * padding_ratio is not an integer.
C11_Witness ==
    /\ pc = "warp_done"
    /\ warp.width_padding > 0
    /\ (warp.final_width * config.padding_ratio) % 100 >= 50

\* C12 (as claimed): with a larger padding_ratio the output is strictly
\* wider and strictly taller.
C12_StrictlyMonotone ==
    pc = "warp_hi_done" =>
        /\ warp_hi.padded_width > warp.padded_width
        /\ warp_hi.padded_height > warp.padded_height

\* C12 (amended): with a larger padding_ratio the output is at least as wide
\* and at least as tall.
C12_Monotone ==
    pc = "warp_hi_done" =>
        /\ warp_hi.padding > warp.padding
        /\ warp_hi.final_width = warp.final_width
        /\ warp_hi.final_height = warp.final_height
        /\ warp_hi.padded_width >= warp.padded_width
        /\ warp_hi.padded_height >= warp.padded_height
        /\ transformed.w = warp.padded_width
        /\ transformed.h = warp.padded_height

\* C12 witness: a larger ratio that leaves the width as it was and makes
\* the output taller.
C12_Witness ==
    /\ pc = "warp_hi_done"
    /\ warp_hi.padding > warp.padding
    /\ warp_hi.padded_width = warp.padded_width
    /\ warp_hi.padded_height > warp.padded_height

\* Integer bounds of a square root.
FloorSqrt(n) == CHOOSE k \in 0..n : k * k <= n /\ (k + 1) * (k + 1) > n
CeilSqrt(n) == CHOOSE k \in 0..n : k * k >= n /\ (k = 0 \/ (k - 1) * (k - 1) < n)
EdgeSq(i, j) ==
    LET a == original_corners.p[i]
        b == original_corners.p[j]
    IN  (a[1] - b[1]) * (a[1] - b[1]) + (a[2] - b[2]) * (a[2] - b[2])

\* C13: the target width is the average of the lengths of the top (TL-TR)
\* and bottom (BR-BL) edges and the target height the average of the
\* lengths of the left (BL-TL) and right (TR-BR) edges, in whole pixels.
C13_AveragedEdges ==
    pc \in {"warp_done", "warp_hi_done"} =>
        LET top == EdgeSq(1, 2)
            right == EdgeSq(2, 3)
            bottom == EdgeSq(3, 4)
            left == EdgeSq(4, 1)
        IN  /\ (FloorSqrt(top) + FloorSqrt(bottom)) \div 2 <= warp.final_width
            /\ warp.final_width <= (CeilSqrt(top) + CeilSqrt(bottom)) \div 2
            /\ (FloorSqrt(left) + FloorSqrt(right)) \div 2
                  <= warp.final_height
            /\ warp.final_height
                  <= (CeilSqrt(left) + CeilSqrt(right)) \div 2

\* C13 witness: opposite edges of different lengths, the target width lies
\* strictly between them.
C13_Witness ==
    /\ pc = "warp_done"
    /\ EdgeSq(1, 2) < warp.final_width * warp.final_width
    /\ warp.final_width * warp.final_width < EdgeSq(3, 4)
    /\ EdgeSq(4, 1) # EdgeSq(2, 3)

\* The corners of a W x H image: its corner pixels, or the corners of its
\* extent.
ImageCorners(img, k) ==
    << <<0, 0>>, <<img.w - k, 0>>, <<img.w - k, img.h - k>>,
       <<0, img.h - k>> >>

\* C14 (as claimed): with zero padding and the corners at the image's own
\* boundary the destination quadrilateral is the source quadrilateral and
\* the output has the size of the input.
C14_Idempotent ==
    (/\ pc = "warp_done"
     /\ config.padding_ratio = 0
     /\ \E k \in {0, 1} : original_corners.p = ImageCorners(original, k))
        => /\ warp.dst_pts = original_corners.p
           /\ transformed.w = original.w
           /\ transformed.h = original.h

\* C15 (as claimed): on an 800 x 600 image the GrabCut strategy starts from
\* the rectangle (x, y, width, height) = (80, 60, 640, 480).
C15_GrabCutRect ==
    (pc = "grabcut_done" /\ original.w = 800 /\ original.h = 600)
        => rect = <<80, 60, 640, 480>>

\* C15 (amended): the margin is a tenth of the smaller dimension, truncated,
\* on both axes: on an 800 x 600 image the rectangle is (60, 60, 680, 480).
C15_GrabCutRectMinMargin ==
    pc = "grabcut_done" =>
        /\ rect[1] = rect[2]
        /\ 10 * rect[1] <= original.w /\ 10 * rect[1] <= original.h
        /\ (original.w < 10 * (rect[1] + 1)
            \/ original.h < 10 * (rect[1] + 1))
        /\ rect[3] = original.w - 2 * rect[1]
        /\ rect[4] = original.h - 2 * rect[2]
        /\ (original.w = 800 /\ original.h = 600)
              => rect = <<60, 60, 680, 480>>

\* C15 witness: the GrabCut strategy ran on an 800 x 600 image.
C15_Witness ==
    /\ pc = "grabcut_done"
    /\ strategy_run = "grabcut"
    /\ original.w = 800 /\ original.h = 600
    /\ rect = <<60, 60, 680, 480>>

\* Every stage of the invocation completed: both decoders read the bytes,
\* segmentation returned a mask with a foreground region, and the corners
\* were ordered.
StagesCompleted ==
    /\ image_bytes.pil /\ image_bytes.cv
    /\ mask # NoMask /\ mask.blobs > 0
    /\ ordered # NoPts

StageRank(p) ==
    CASE p = "Idle" -> 0
      [] p = "load" -> 1
      [] p = "remove" -> 2
      [] p = "decode" -> 3
      [] p = "contours" -> 4
      [] p = "corners" -> 5
      [] p = "order" -> 6
      [] p = "scale" -> 7
      [] p = "rectify" -> 8
      [] p = "return" -> 9
      [] p = "Succeeded" -> 10
      [] OTHER -> -1

\* What a stage produces exists only when the stages before it completed.
StagePrefix ==
    /\ mask # NoMask => image_bytes.pil
    /\ original # NoImage => mask # NoMask
    /\ contour # NoLens => original # NoImage
    /\ corner_src # NoCorners => contour # NoLens
    /\ ordered # NoPts => corner_src # NoCorners
    /\ original_corners # NoCornerSet => ordered # NoPts
    /\ transformed # NoImage => original_corners # NoCornerSet
    /\ result.returned <=> pc \in {"Succeeded", "Failed"}
    /\ pc = "Succeeded" =>
          transformed # NoImage /\ result.duration = elapsed /\ exc = NoExc
    /\ pc \in {"raise", "Failed"} => transformed = NoImage /\ exc # NoExc

StageStep ==
    IF pc \in {"Succeeded", "Failed"}
    THEN pc' = pc /\ result' = result
    ELSE IF pc = "raise"
         THEN pc' = "Failed"
         ELSE \/ pc' = pc
              \/ pc' = "raise"
              \/ StageRank(pc') = StageRank(pc) + 1

\* C20: an invocation goes Idle -> Running -> Succeeded or Failed through
\* the stages in their order (decode, segmentation, corner extraction,
\* corner scaling, rectification, elapsed time); a stage starts only after
\* the earlier ones completed, a failure ends the invocation in Failed with
\* no later stage run, and Succeeded and Failed are terminal.
C20_StageOrder == [][StageStep]_vars /\ []StagePrefix

\* C20 witness: corner ordering failed after segmentation and contour
\* extraction completed, and the invocation ended in Failed.
C20_Witness ==
    /\ pc = "Failed"
    /\ corner_src # NoCorners
    /\ ordered = NoPts
    /\ original_corners = NoCornerSet
    /\ result.returned /\ ~result.success

\* The positions of a call's trace at which the rembg fallback ran.
FallbackRuns(tr) ==
    {i \in DOMAIN tr : tr[i] \in {"fallback_ok", "fallback_raised"}}

\* C19 (as claimed): the fallback strategy runs only when the session could
\* not be initialized and at most once; an undecodable input or an error
\* during inference surfaces as a failure without the fallback being run.
C19_OnlyDegradationRetries ==
    opt_out.state # "none" =>
        /\ FallbackRuns(opt_out.trace) # {} => ~opt.session
        /\ Cardinality(FallbackRuns(opt_out.trace)) <= 1
        /\ (\E i \in DOMAIN opt_out.trace :
                opt_out.trace[i] \in {"preprocess_raised", "onnx_raised"})
              => /\ FallbackRuns(opt_out.trace) = {}
                 /\ opt_out.state = "raised"

\* The outcome of an invocation that runs alone on input b.
AloneSucceeds(b) == b.pil /\ b.rembg_ok /\ b.cv /\ b.blobs > 0

\* C17 (as claimed): concurrent invocations on one processor return what
\* they would return alone, and no invocation reads state that another
\* invocation wrote, the process environment included.
C17_ThreadSafe ==
    \A t \in Threads :
        /\ threads.inv[t].returned =>
              /\ threads.inv[t].success = AloneSucceeds(threads.inv[t].input)
              /\ threads.inv[t].success =>
                    threads.inv[t].image = threads.inv[t].input
        /\ threads.inv[t].home_writer \in {0, t}

\* C18: the session of an adapter is initialized at most once, before any
\* caller can reach the adapter, and no call writes the session field: the
\* callers all see the session the constructor left.
SessionReadOnly ==
    /\ opt.inits <= 1
    /\ \A t \in Threads :
          threads.inv[t].pc # "Idle" =>
              /\ opt.state = "ready"
              /\ opt.inits = 1
              /\ threads.inv[t].session_seen = opt.session
C18_SessionInitOnce ==
    /\ []SessionReadOnly
    /\ [][opt.state = "ready" => opt' = opt]_vars

\* C18 witness: every thread is inside a call while the adapter has no
\* session although the model file is there.
C18_Witness ==
    /\ \A t \in Threads : threads.inv[t].pc = "running"
    /\ opt.state = "ready" /\ ~opt.session /\ opt.inits = 1
    /\ model_present

\* C21: a segmentation adapter's remove_background raises when the bytes
\* are not a valid image and when the algorithm it ran fails, and a value
\* it returns is the output of that algorithm, never the decoded input.
C21_SegmentFailsOrMasks ==
    seg_out.state # "none" =>
        /\ ~image_bytes.pil => seg_out.state = "raised"
        /\ seg_out.algorithm = "failed" => seg_out.state = "raised"
        /\ seg_out.state = "returned" => seg_out.value = "segmented"

\* C23: in what a strategy hands to corner extraction the pixels classified
\* as background have value 0, so contour tracing does not take them for
\* foreground.
C23_BackgroundIsZero ==
    (seg_out.state = "returned" /\ seg_out.value = "segmented") =>
        ~contour_foreground(seg_out.background)

\* Twice the signed area of the triangle of corners i, j, k (times d[1]*d[2]).
Cross(c, i, j, k) ==
    (c.p[j][1] - c.p[i][1]) * (c.p[k][2] - c.p[i][2])
    - (c.p[j][2] - c.p[i][2]) * (c.p[k][1] - c.p[i][1])

\* Corners that are not a valid quadrilateral: three of them on one line
\* (coincident corners included), or a target of zero width or height.
DegenerateCorners(c) ==
    \/ \E i, j, k \in Idx : i < j /\ j < k /\ Cross(c, i, j, k) = 0
    \/ final_size(c).w = 0
    \/ final_size(c).h = 0

\* C22: degenerate corners handed to rectification make it fail: no image
\* is produced for them and process_image does not return a success.
C22_DegenerateFails ==
    (original_corners # NoCornerSet /\ DegenerateCorners(original_corners)) =>
        /\ transformed = NoImage
        /\ ~(result.returned /\ result.success)

\* C24: process_image_from_file on a path that cannot be opened or read
\* returns (False, "Failed to read image file...", None, 0.0) with no stage
\* run and never raises; on a readable file it returns the tuple
\* process_image returned for the bytes.
C24_FromFile ==
    /\ file_call.state # "none" /\ file_call.path # "ok" =>
          /\ file_call.state = "returned"
          /\ ~file_call.result.success
          /\ \E m \in PathOutcomes :
                file_call.result.error_message
                    = "Failed to read image file" \o ": " \o m
          /\ ~file_call.result.has_image
          /\ file_call.result.duration = 0
          /\ pc = "Idle" /\ elapsed = 0 /\ strategy_run = "none"
          /\ exc = NoExc
    /\ file_call.state = "returned" /\ file_call.path = "ok" =>
          /\ result.returned
          /\ file_call.result = result
    /\ file_call.state = "processing" => pc \notin {"Raised", "Returned"}

C24_Witness ==
    \/ file_call.state = "returned" /\ file_call.path # "ok"
    \/ /\ file_call.state = "returned" /\ file_call.path = "ok"
       /\ file_call.result.success

\* C28: on every mask and original image the library adapter (padding
\* ratio 0.05, debug output off) and the API adapter keep the same contour,
\* return the same ordered corners, the same canvas size and destination
\* rectangle, and fail on the same inputs.
C28_AdaptersEquivalent ==
    equiv_out.state = "done" =>
        /\ equiv_out.lib.state = equiv_out.api.state
        /\ equiv_out.lib.raised.stage = equiv_out.api.raised.stage
        /\ equiv_out.lib.contour = equiv_out.api.contour
        /\ equiv_out.lib.corner_src = equiv_out.api.corner_src
        /\ equiv_out.lib.ordered = equiv_out.api.ordered
        /\ equiv_out.lib.original_corners = equiv_out.api.original_corners
        /\ equiv_out.lib.geometry.padded_width
              = equiv_out.api.geometry.padded_width
        /\ equiv_out.lib.geometry.padded_height
              = equiv_out.api.geometry.padded_height
        /\ equiv_out.lib.geometry.dst_pts = equiv_out.api.geometry.dst_pts
        /\ equiv_out.lib.image = equiv_out.api.image


C28_Witness ==
    /\ equiv_out.state = "done"
    /\ equiv_out.lib.state = "returned"
    /\ equiv_out.api.state = "returned"
    /\ equiv_out.api.geometry.width_padding > 0
    /\ mask.w # image_bytes.w

\* C25: in a response of the API service is_background_removed says whether
\* background removal completed, is_image_wrapped whether the warp
\* completed, and result is true exactly when there is an image and no
\* error message.
C25_ResponseFlags ==
    api.state = "responded" =>
        /\ api.response.is_background_removed = api.bg_done
        /\ api.response.is_image_wrapped = api.warp_done
        /\ api.response.result =
              (api.response.processed_image # ""
               /\ api.response.error_message = "")

\* The points o[1..4], taken cyclically, turn clockwise in image
\* coordinates (y grows downward) at every corner.
ClockwiseCycle(o) ==
    /\ \A i \in Idx : o[i] # <<>>
    /\ \A i \in Idx :
          Cross([p |-> o], i, (i % 4) + 1, ((i + 1) % 4) + 1) > 0

\* The four points are the corners of a convex quadrilateral.
IsConvexQuad(p) ==
    \E q \in Perms4 : ClockwiseCycle([i \in Idx |-> p[q[i]]])

\* The top-left corner: nearest to the origin of the image.
IsTopLeftOf(a, p) ==
    \A i \in Idx : a[1] + a[2] <= p[i][1] + p[i][2]

\* C26: the corners of a convex quadrilateral are returned in clockwise
\* order starting from the top-left one, so that consecutive returned
\* points are adjacent corners: [TL, TR, BR, BL].
C26_ClockwiseFromTopLeft ==
    (pc = "order_done" /\ IsConvexQuad(pts)) =>
        /\ ClockwiseCycle(ordered)
        /\ {ordered[i] : i \in Idx} = {pts[i] : i \in Idx}
        /\ IsTopLeftOf(ordered[1], pts)

\* C27: for four pairwise distinct points the result is a permutation of
\* the input: every point has exactly one of the roles TL, TR, BR, BL and
\* BR is assigned.
C27_Permutation ==
    (pc = "order_done" /\ AllDistinct(pts)) =>
        /\ ordered[3] # <<>>
        /\ \E q \in Perms4 : ordered = [i \in Idx |-> pts[q[i]]]

\* A step of a running process_image invocation.
InvocationStep == pc \notin {"Idle", "Succeeded", "Failed"}

\* C29: a process_image invocation leaves the configuration, the fields of
\* the processor and its adapters, and the process environment unchanged.
C29_NoStateCrossesCalls ==
    [][InvocationStep =>
          /\ config' = config
          /\ proc' = proc
          /\ bg_remover' = bg_remover
          /\ model_present' = model_present
          /\ os_environ' = os_environ]_vars

\* C30: when the model file was absent at construction and is put in place
\* later, a call made after that initializes the session and runs neural
\* inference (given that a session can be created and the input decodes).
C30_LazyInit ==
    (opt_calls.arrived /\ opt_calls.last.present /\ opt_calls.last.created
     /\ opt_calls.last.input.pil) =>
        /\ opt_calls.last.session
        /\ opt.session
        /\ opt_calls.last.out.trace[2] \in {"onnx", "onnx_raised"}


====
